---- MODULE Spec2Model ----
(***************************************************************************)
(* Duplicate removal of the removal/export pipeline.                       *)
(*                                                                         *)
(*   Spec          find_duplicates of utils/duplicate_utils.py: candidate  *)
(*                 pairs, verifier voting, the duplicates dataframe.       *)
(*   SpecRemove    remove_duplicates of utils/duplicate_utils.py run on a  *)
(*                 duplicates file find_duplicates can have written.       *)
(*   SpecLocation  location-level stage: process_row applied to every row  *)
(*                 of the aggregation table, followed by the deletions of  *)
(*                 remove_duplicates of utils/location_duplicates_utils.py *)
(*                                                                         *)
(* Image paths are modelled as integers (sorted(pair) is their numeric     *)
(* order),         detection ids are 0-based row indices as in the code,   *)
(* and a bounding box is modelled by the index the detection had in the    *)
(* loaded annotation file, so that a surviving entry can be recognised.    *)
(***************************************************************************)
EXTENDS Integers, Sequences, FiniteSets, TLC

VARIABLES
    coco,             \* content of the loaded annotation file: image -> detections
    lat,              \* image -> latitude parsed from the file name
    apis,             \* number of verifiers in the list handed to find_duplicates
    annotations,      \* dataset.annotations: image -> [xyxy, class_id]
    image_paths,      \* dataset.image_paths
    duplicates_df,    \* rows <<Image1, Detection ID1, Image2, Detection ID2>>
    worklist,         \* the combinations of all candidate pairs, in loop order
    cursor,           \* number of combinations find_duplicates has gone through
    votes,            \* votes of the combination evaluated last
    zero_area,        \* nodes whose box has zero width or height
    combination,      \* the combination find_duplicates looked at last
    groups,           \* similar_objects_pairs of remove_duplicates
    for_deletion,     \* nodes <<image, detection id>> marked for deletion
    df,               \* aggregation table: rows [image_ids, annotation_ids]
    processed_rows,   \* results of process_row, one per row of df
    pc                \* position of the run

\* verifier results, files, and the runs compared for reproducibility
VARIABLES
    outcomes,             \* nr_matches_ransac of every verifier, last combination
    bucket,               \* the blobs of the GCS bucket: name -> content
    files,                \* the local files: name -> content
    local_ann_file_path,  \* local_ann_file_path of the stage's configuration
    seeded_draws,         \* the values the generator seeded at import hands out
    run_deletions         \* for_deletion of every finished run

\* aggregate of location_estimator/aggregate.py
VARIABLES
    est,                  \* est_lat, est_lng of the detections: image -> estimates
    objects,              \* the points handed to aggregate: [x, y, id]
    rho,                  \* rho[i] as <<s, draw of np.random.rand()>>
    ann_id,               \* ann_id[i]: ids of point i and of its neighbours
    dis,                  \* dis[i]
    aggregated_objects    \* the points returned, as indices of objects

\* BuildingManager of location_estimator/buildingmanager.py
VARIABLES
    records,          \* the rows of the buildings file
    buildings,        \* self.buildings: the node list of each building
    building_grid,    \* self.building_grid: cell <<i, j>> -> buildings, the
                      \* cells holding an empty list left out
    nx,               \* self.nx
    ny,               \* self.ny
    min_lat,          \* self.min_lat
    min_lng,          \* self.min_lng
    point,            \* the point find_buildings was called with
    nearest           \* the list find_buildings returned

\* the variables of the image-level and location-level stages, but for the
\* position of the run and the loop counter
store_vars == <<bucket, files, local_ann_file_path>>

repro_vars == <<seeded_draws, run_deletions>>

pipeline_vars == <<coco, lat, apis, annotations, image_paths, duplicates_df,
                   worklist, votes, zero_area, combination, groups,
                   for_deletion, df, processed_rows, outcomes, store_vars,
                   repro_vars>>

aggregate_vars == <<est, objects, rho, ann_id, dis, aggregated_objects>>

building_vars == <<records, buildings, building_grid, nx, ny, min_lat, min_lng,
                   point, nearest>>

\* the variables of the stages that are not run by a specification
extra_vars == <<aggregate_vars, building_vars>>

vars == <<pipeline_vars, cursor, pc, extra_vars>>

----------------------------------------------------------------------------
(* Bounds of the model *)

\* most detections of one image, and of the whole annotation file
MaxPerImage == 2
MaxDetections == 3
\* most verifiers in the list
MaxApis == 3
\* most rows a run appends to the duplicates dataframe
MaxRows == 2
\* longest cluster (row of the aggregation table)
MaxLen == 6
\* most points handed to aggregate
MaxPoints == 4

\* the image paths of the annotation file of the image-level stage
Images == {1, 2}

(* Program and configuration values *)

\* index of the class of interest in dataset.classes, and another class
ExportClass == 0
OtherClass == 1
\* neighbor_distance_meters, in the unit of Lats
distance_meters == 1
Lats == {0, 2}
\* conf["threshold"] of a verifier
Threshold == 12
\* what api.get_nr_matches() returns: at and above the threshold
MatchCounts == {Threshold, Threshold + 1}
\* a verifier call that raises
Raised == -1
\* votes before the first combination is evaluated (the local is unassigned)
Unassigned == -1

----------------------------------------------------------------------------
(* Helpers *)

RECURSIVE SortedSeq(_)
SortedSeq(S) ==
    IF S = {} THEN <<>>
    ELSE LET m == CHOOSE x \in S : \A y \in S : x <= y
         IN <<m>> \o SortedSeq(S \ {m})

RECURSIVE Flatten(_)
Flatten(ss) == IF ss = <<>> THEN <<>> ELSE Head(ss) \o Flatten(Tail(ss))

Range(s) == {s[k] : k \in DOMAIN s}

Abs(x) == IF x < 0 THEN -x ELSE x

\* len(dataset.annotations[image]): the number of boxes
DetLen(anns) == Len(anns.xyxy)

\* a deletion that takes the detection ids for 1-based positions
NpDelete_OneBased(arr, ids) ==
    LET keep == SortedSeq({k \in 1..Len(arr) : k \notin ids})
    IN [n \in 1..Len(keep) |-> arr[keep[n]]]

\* np.delete(arr, ids, axis=0): the entries whose 0-based index is not in ids
NpDelete(arr, ids) ==
    LET keep == SortedSeq({k \in 1..Len(arr) : (k - 1) \notin ids})
    IN [n \in 1..Len(keep) |-> arr[keep[n]]]

----------------------------------------------------------------------------
(* The annotation file and the dataset loaded from it *)

ClassSeqs == UNION {[1..k -> {ExportClass, OtherClass}] : k \in 0..MaxPerImage}

RECURSIVE SumLen(_, _)
SumLen(f, S) ==
    IF S = {} THEN 0
    ELSE LET i == CHOOSE x \in S : TRUE IN Len(f[i]) + SumLen(f, S \ {i})

\* annotation files: per image the class ids of its detections, with at
\* least one detection of the class of interest in the file
CocoFiles ==
    {f \in [Images -> ClassSeqs] :
        /\ SumLen(f, Images) <= MaxDetections
        /\ \E i \in Images : \E k \in DOMAIN f[i] : f[i][k] = ExportClass}

\* from_coco: one Detections object per image, boxes and classes in file order
FromCoco(f) ==
    [i \in DOMAIN f |-> [xyxy |-> [k \in 1..Len(f[i]) |-> k - 1],
                       class_id |-> f[i]]]

\* the <<image, detection id>> nodes of a file
AllNodes(f) == UNION {{<<i, k - 1>> : k \in 1..Len(f[i])} : i \in DOMAIN f}

----------------------------------------------------------------------------
(* find_neighbors and the candidate pairs of find_duplicates *)

\* np.where(np.isin(anns.class_id, get_indexes(classes, [class_name])))[0]
ClassIndices(anns, c) ==
    SortedSeq({k - 1 : k \in {x \in 1..Len(anns.class_id) : anns.class_id[x] = c}})

\* rows of the neighbour dataframe: images with a detection of interest
NeighborRows(ds) ==
    {i \in DOMAIN ds : Len(ClassIndices(ds[i], ExportClass)) > 0}

\* ball.query_radius: every row within the radius, the queried row included
Neighbors(ds, la, i) ==
    {j \in NeighborRows(ds) : Abs(la[i] - la[j]) <= distance_meters}

\* {tuple(sorted(pair)) for pair in string_pairs}
ImagePairs(ds, la) ==
    UNION {{<<IF i <= j THEN i ELSE j, IF i <= j THEN j ELSE i>> :
               j \in Neighbors(ds, la, i)} : i \in NeighborRows(ds)}

PairKey(p) == p[1] * (Cardinality(Images) + 1) + p[2]

\* the candidate pairs in the order the loop takes them
PairSeq(ds, la) ==
    LET keys == SortedSeq({PairKey(p) : p \in ImagePairs(ds, la)})
    IN [n \in 1..Len(keys) |->
           CHOOSE p \in ImagePairs(ds, la) : PairKey(p) = keys[n]]

\* list(product(np.where(class_indices1)[0], np.where(class_indices2)[0]))
Combinations(ds, p) ==
    LET i1 == ClassIndices(ds[p[1]], ExportClass)
        i2 == ClassIndices(ds[p[2]], ExportClass)
    IN [n \in 1..(Len(i1) * Len(i2)) |->
           <<p[1], i1[((n - 1) \div Len(i2)) + 1],
             p[2], i2[((n - 1) % Len(i2)) + 1]>>]

\* every combination of the run, in loop order
Worklist(ds, la) ==
    LET ps == PairSeq(ds, la)
    IN Flatten([n \in 1..Len(ps) |-> Combinations(ds, ps[n])])

\* the test on the second crop only
CropEmpty_SecondOnly(c) == <<c[3], c[4]>> \in zero_area

\* crop1.shape[0] == 0 or crop1.shape[1] == 0 or crop2... == 0
CropEmpty(c) == <<c[1], c[2]>> \in zero_area \/ <<c[3], c[4]>> \in zero_area

\* a verifier that raised is taken to have matched
NrMatches_RaisedCounts(o) == IF o = Raised THEN Threshold + 1 ELSE o

\* nr_matches_ransac of one verifier: 0 when the call raised
NrMatches(o) == IF o = Raised THEN 0 ELSE o

\* the votes of one combination: verifiers with threshold < nr_matches_ransac
CountVotes(outcome) ==
    Cardinality({a \in DOMAIN outcome : Threshold < NrMatches(outcome[a])})

\* a majority test that also passes half of the votes
IsMajority_Half(v, n) == v >= n \div 2

\* votes >= (len(apis) // 2) + 1
IsMajority(v, n) == v >= (n \div 2) + 1

----------------------------------------------------------------------------
(* remove_duplicates of duplicate_utils.py *)

Row1(r) == <<r[1], r[2]>>
Row2(r) == <<r[3], r[4]>>

\* the nodes g.add_edge creates
GraphNodes(rows) == UNION {{Row1(r), Row2(r)} : r \in Range(rows)}

Adjacent(rows, n) ==
    {m \in GraphNodes(rows) :
        \E r \in Range(rows) : \/ Row1(r) = n /\ Row2(r) = m
                               \/ Row1(r) = m /\ Row2(r) = n}

RECURSIVE Reach(_, _)
Reach(rows, S) ==
    LET T == S \cup UNION {Adjacent(rows, n) : n \in S}
    IN IF T = S THEN S ELSE Reach(rows, T)

\* list(nx.connected_components(g))
ConnectedComponents(rows) == {Reach(rows, {n}) : n \in GraphNodes(rows)}

NodeKey(n) == n[1] * (MaxDetections + 1) + n[2]

\* list(group): the members of a component as a list
GroupList(g) ==
    LET keys == SortedSeq({NodeKey(n) : n \in g})
    IN [k \in 1..Len(keys) |-> CHOOSE n \in g : NodeKey(n) = keys[k]]

\* random.randint(0, len(group)): an index past the end of the group
KeepIndexes_PastEnd(g) == 0..Cardinality(g)

\* the values random.randint(0, len(group) - 1) can return
KeepIndexes(g) == 0..(Cardinality(g) - 1)

\* the members of a group other than the one at keep_index
MarkedOf(g, keep_index) ==
    LET l == GroupList(g)
    IN {l[k] : k \in {x \in 1..Len(l) : x - 1 /= keep_index}}

\* for_deletion_dict[image_name] = [det_id] at every item: the last id only
DeletionDict_LastOnly(marked) ==
    [i \in {n[1] : n \in marked} |->
        {CHOOSE d \in {n[2] : n \in {m \in marked : m[1] = i}} :
            \A n \in {m \in marked : m[1] = i} : n[2] <= d}]

\* for_deletion_dict: image -> detection ids, for the images that have some
DeletionDict(marked) ==
    [i \in {n[1] : n \in marked} |-> {n[2] : n \in {m \in marked : m[1] = i}}]

\* the deletion loop without the test for an image left with no detection
DeleteFrom_KeepEmpty(anns, dict) ==
    [i \in DOMAIN anns |->
        IF i \in DOMAIN dict
        THEN [xyxy |-> NpDelete(anns[i].xyxy, dict[i]),
              class_id |-> NpDelete(anns[i].class_id, dict[i])]
        ELSE anns[i]]

\* the deletion loop: np.delete on both arrays of every image of the dict,
\* and the image dropped from dataset.annotations when nothing is left
DeleteFrom(anns, dict) ==
    LET after == [i \in DOMAIN anns |->
                    IF i \in DOMAIN dict
                    THEN [xyxy |-> NpDelete(anns[i].xyxy, dict[i]),
                          class_id |-> NpDelete(anns[i].class_id, dict[i])]
                    ELSE anns[i]]
        kept == {i \in DOMAIN anns : ~(i \in DOMAIN dict /\ DetLen(after[i]) = 0)}
    IN [i \in kept |-> after[i]]

\* dataset.image_paths.remove(image_name) for every image dropped
PathsAfter(paths, anns) == SelectSeq(paths, LAMBDA i : i \in DOMAIN anns)

----------------------------------------------------------------------------
(* Files: the blobs of the bucket and the local files, name -> content *)

\* f"{annotations_path}/{ann_name_base}", the output of inference
InputBlob == "annotations.json"

\* f"{ann_name_base.split('.')[0]}_no_duplicates_image.json"
ImageOutput == "annotations_no_duplicates_image.json"

\* f"{ann_name_base.split('.')[0]}_no_duplicates_image_location.json"
LocationOutput == "annotations_no_duplicates_image_location.json"

\* annotation_path_local of from_coco
TempAnnotations == "temp_annotations.json"

\* a local_ann_file_path of the image-level stage
LocalInput == "data/annotations.json"

\* local_ann_file_path values of the location-level stage: the image-level
\* output, which has the no_duplicates_image suffix
LocalImageOutput == "data/annotations_no_duplicates_image.json"

\* "no_duplicates_image" in local_ann_file_path
HasSuffix(path) ==
    path \in {LocalImageOutput, "data/annotations_no_duplicates_image_location.json"}

\* output_filepath: in os.path.dirname(local_ann_file_path) when the stage
\* has a local_ann_file_path, in the working directory otherwise
OutputFilepath(local, name) ==
    IF local = "" THEN name
    ELSE IF name = ImageOutput THEN LocalImageOutput
    ELSE "data/annotations_no_duplicates_image_location.json"

\* the content of an annotation file: who wrote it, and the dataset it holds
FileOf(origin, anns) == [origin |-> origin, data |-> anns]

\* a file left by an earlier run
Earlier == FileOf("earlier run", <<>>)

\* f with name k holding v, written over what k held
Put(f, k, v) == [x \in DOMAIN f \cup {k} |-> IF x = k THEN v ELSE f[x]]

\* f without the names of K
Remove(f, K) == [x \in DOMAIN f \ K |-> f[x]]

\* the local files after dataset.as_coco(annotations_path=output_filepath),
\* the removal of temp_annotations.json, and of the output file when the
\* stage has no local_ann_file_path
ExportFiles(f, local, name, anns) ==
    Remove(Put(f, OutputFilepath(local, name), FileOf("this run", anns)),
           {TempAnnotations} \cup
               (IF local = "" THEN {OutputFilepath(local, name)} ELSE {}))

\* the bucket after upload_json_to_gcs of the file just written
ExportBucket(b, name, anns) == Put(b, name, FileOf("this run", anns))

\* the files the stage can find: the local input when there is a
\* local_ann_file_path, and any of its outputs left by an earlier run
LocalFilesAt(local, input, name) ==
    {[x \in (IF local = "" THEN {} ELSE {input}) \cup old |->
         IF x = input THEN FileOf("inference", FromCoco(coco)) ELSE Earlier] :
        old \in SUBSET {OutputFilepath(local, name)}}

\* the bucket the image-level stage can find: the output of inference, and
\* possibly its own output left by an earlier run
BucketsAt(input, name) ==
    {[x \in {input} \cup old |->
         IF x = input THEN FileOf("inference", FromCoco(coco)) ELSE Earlier] :
        old \in SUBSET {name}}

----------------------------------------------------------------------------
(* Stages at rest *)

StoreIdle ==
    /\ bucket = <<>>
    /\ files = <<>>
    /\ local_ann_file_path = ""

ReproIdle ==
    /\ seeded_draws = <<>>
    /\ run_deletions = <<>>

AggregateIdle ==
    /\ est = <<>>
    /\ objects = <<>>
    /\ rho = <<>>
    /\ ann_id = <<>>
    /\ dis = <<>>
    /\ aggregated_objects = <<>>

BuildingIdle ==
    /\ records = <<>>
    /\ buildings = <<>>
    /\ building_grid = <<>>
    /\ nx = 0
    /\ ny = 0
    /\ min_lat = 0
    /\ min_lng = 0
    /\ point = <<>>
    /\ nearest = <<>>

ExtraIdle == AggregateIdle /\ BuildingIdle

----------------------------------------------------------------------------
(* Image-level stage *)

Init ==
    /\ coco \in CocoFiles
    /\ lat \in {l \in [Images -> Lats] : l[1] = 0}
    /\ apis \in 0..MaxApis
    /\ zero_area \in SUBSET (AllNodes(coco) \cap {<<1, 0>>})
    /\ annotations = FromCoco(coco)
    /\ image_paths = SortedSeq(Images)
    /\ duplicates_df = <<>>
    /\ worklist = Worklist(FromCoco(coco), lat)
    /\ cursor = 0
    /\ votes = Unassigned
    /\ combination = <<>>
    /\ groups = {}
    /\ for_deletion = {}
    /\ df = <<>>
    /\ processed_rows = <<>>
    /\ pc = "find"
    /\ outcomes = <<>>
    /\ StoreIdle
    /\ ReproIdle
    /\ ExtraIdle

\* one pass of the combination loop whose crops are degenerate: continue
SkipCombination ==
    /\ pc = "find"
    /\ cursor < Len(worklist)
    /\ CropEmpty(worklist[cursor + 1])
    /\ combination' = worklist[cursor + 1]
    /\ cursor' = cursor + 1
    /\ UNCHANGED <<coco, lat, apis, annotations, image_paths, duplicates_df,
                   worklist, votes, zero_area, groups, for_deletion, df,
                   processed_rows, pc>>
    /\ UNCHANGED <<outcomes, store_vars, repro_vars>>
    /\ UNCHANGED extra_vars

\* one pass of the combination loop: every verifier is run, the row is
\* appended when the majority voted for a match
EvaluateCombination ==
    /\ pc = "find"
    /\ cursor < Len(worklist)
    /\ ~CropEmpty(worklist[cursor + 1])
    /\ \E outcome \in [1..apis -> MatchCounts \cup {Raised}] :
         LET v == CountVotes(outcome)
         IN /\ IsMajority(v, apis) => Len(duplicates_df) < MaxRows
            /\ votes' = v
            /\ duplicates_df' = IF IsMajority(v, apis)
                                THEN Append(duplicates_df, worklist[cursor + 1])
                                ELSE duplicates_df
    /\ combination' = worklist[cursor + 1]
    /\ cursor' = cursor + 1
    /\ UNCHANGED <<coco, lat, apis, annotations, image_paths, worklist,
                   zero_area, groups, for_deletion, df, processed_rows, pc>>
    /\ UNCHANGED <<outcomes, store_vars, repro_vars>>
    /\ UNCHANGED extra_vars

\* the loop is over: temp_duplicates.csv is written and find_duplicates returns
FindDone ==
    /\ pc = "find"
    /\ cursor = Len(worklist)
    /\ pc' = "found"
    /\ UNCHANGED <<coco, lat, apis, annotations, image_paths, duplicates_df,
                   worklist, cursor, votes, zero_area, combination, groups,
                   for_deletion, df, processed_rows>>
    /\ UNCHANGED <<outcomes, store_vars, repro_vars>>
    /\ UNCHANGED extra_vars

Next == SkipCombination \/ EvaluateCombination \/ FindDone

Spec == Init /\ [][Next]_vars

----------------------------------------------------------------------------
(* find_duplicates, one verifier call at a time *)

\* annotation files with at most one detection per image
VerifierFiles == {f \in CocoFiles : \A i \in Images : Len(f[i]) <= 1}

InitVerify ==
    /\ coco \in VerifierFiles
    /\ lat \in {l \in [Images -> Lats] : l[1] = 0}
    /\ apis \in 0..MaxApis
    /\ zero_area \in SUBSET (AllNodes(coco) \cap {<<1, 0>>})
    /\ annotations = FromCoco(coco)
    /\ image_paths = SortedSeq(Images)
    /\ duplicates_df = <<>>
    /\ worklist = Worklist(FromCoco(coco), lat)
    /\ cursor = 0
    /\ votes = Unassigned
    /\ combination = <<>>
    /\ groups = {}
    /\ for_deletion = {}
    /\ df = <<>>
    /\ processed_rows = <<>>
    /\ pc = "combination"
    /\ outcomes = <<>>
    /\ StoreIdle
    /\ ReproIdle
    /\ ExtraIdle

\* the head of the combination loop: the crops are cut, a degenerate crop
\* continues with the next combination, otherwise votes = 0
StartCombination ==
    /\ pc = "combination"
    /\ cursor < Len(worklist)
    /\ combination' = worklist[cursor + 1]
    /\ IF CropEmpty(worklist[cursor + 1])
       THEN /\ cursor' = cursor + 1
            /\ UNCHANGED <<votes, outcomes, pc>>
       ELSE /\ votes' = 0
            /\ outcomes' = <<>>
            /\ pc' = "apis"
            /\ UNCHANGED cursor
    /\ UNCHANGED <<coco, lat, apis, annotations, image_paths, duplicates_df,
                   worklist, zero_area, groups, for_deletion, df,
                   processed_rows>>
    /\ UNCHANGED <<store_vars, repro_vars>>
    /\ UNCHANGED extra_vars

\* one pass of "for api in apis": the call returns a number of matches or
\* raises, the except branch sets nr_matches_ransac = 0, then the vote
RunVerifier ==
    /\ pc = "apis"
    /\ Len(outcomes) < apis
    /\ \E o \in MatchCounts \cup {Raised} :
         /\ outcomes' = Append(outcomes, o)
         /\ votes' = IF Threshold < NrMatches(o) THEN votes + 1 ELSE votes
    /\ UNCHANGED <<coco, lat, apis, annotations, image_paths, duplicates_df,
                   worklist, zero_area, combination, groups, for_deletion,
                   df, processed_rows, cursor, pc>>
    /\ UNCHANGED <<store_vars, repro_vars>>
    /\ UNCHANGED extra_vars

\* the verifiers are exhausted: the row is appended on a majority and the
\* loop goes to the next combination
CountMajority ==
    /\ pc = "apis"
    /\ Len(outcomes) = apis
    /\ duplicates_df' = IF IsMajority(votes, apis)
                        THEN Append(duplicates_df, combination)
                        ELSE duplicates_df
    /\ cursor' = cursor + 1
    /\ pc' = "combination"
    /\ UNCHANGED <<coco, lat, apis, annotations, image_paths, worklist,
                   votes, zero_area, combination, groups, for_deletion, df,
                   processed_rows, outcomes>>
    /\ UNCHANGED <<store_vars, repro_vars>>
    /\ UNCHANGED extra_vars

\* the loops are over: temp_duplicates.csv is written
VerifyDone ==
    /\ pc = "combination"
    /\ cursor = Len(worklist)
    /\ pc' = "found"
    /\ UNCHANGED <<coco, lat, apis, annotations, image_paths, duplicates_df,
                   worklist, cursor, votes, zero_area, combination, groups,
                   for_deletion, df, processed_rows, outcomes>>
    /\ UNCHANGED <<store_vars, repro_vars>>
    /\ UNCHANGED extra_vars

NextVerify == StartCombination \/ RunVerifier \/ CountMajority \/ VerifyDone

SpecVerify == InitVerify /\ [][NextVerify]_vars

----------------------------------------------------------------------------
(* remove_duplicates, image level *)

\* the rows of list l at the positions in I, in the order of l
SubList(l, I) ==
    LET ks == SortedSeq(I) IN [n \in 1..Len(ks) |-> l[ks[n]]]

\* the contents temp_duplicates.csv can have after find_duplicates: some of
\* the combinations, in loop order
DuplicateFiles(w) ==
    {SubList(w, I) : I \in {J \in SUBSET (1..Len(w)) : Cardinality(J) <= MaxRows}}

InitRemove ==
    /\ coco \in CocoFiles
    /\ lat \in {l \in [Images -> Lats] : l[1] = 0}
    /\ apis = MaxApis
    /\ zero_area = {}
    /\ annotations = FromCoco(coco)
    /\ image_paths = SortedSeq(Images)
    /\ worklist = Worklist(FromCoco(coco), lat)
    /\ duplicates_df \in DuplicateFiles(worklist)
    /\ cursor = Len(worklist)
    /\ votes = Unassigned
    /\ combination = <<>>
    /\ groups = {}
    /\ for_deletion = {}
    /\ df = <<>>
    /\ processed_rows = <<>>
    /\ pc = "remove"
    /\ outcomes = <<>>
    /\ local_ann_file_path \in {"", LocalInput}
    /\ bucket \in BucketsAt(InputBlob, ImageOutput)
    /\ files \in LocalFilesAt(local_ann_file_path, LocalInput, ImageOutput)
    /\ ReproIdle
    /\ ExtraIdle

\* remove_duplicates: components, one survivor each, deletion from the dataset
RemoveDuplicates ==
    /\ pc = "remove"
    /\ groups' = ConnectedComponents(duplicates_df)
    /\ \E keep \in [groups' -> 0..MaxDetections] :
         /\ \A g \in groups' : keep[g] \in KeepIndexes(g)
         /\ LET marked == UNION {MarkedOf(g, keep[g]) : g \in groups'}
                anns == DeleteFrom(FromCoco(coco), DeletionDict(marked))
            IN /\ for_deletion' = marked
               /\ annotations' = anns
               /\ image_paths' = PathsAfter(image_paths, anns)
               /\ files' = ExportFiles(files, local_ann_file_path, ImageOutput, anns)
               /\ bucket' = ExportBucket(bucket, ImageOutput, anns)
    /\ pc' = "done"
    /\ UNCHANGED <<coco, lat, apis, duplicates_df, worklist, cursor, votes, zero_area,
                   combination, df, processed_rows>>
    /\ UNCHANGED <<outcomes, local_ann_file_path, repro_vars>>
    /\ UNCHANGED extra_vars

NextRemove == RemoveDuplicates

SpecRemove == InitRemove /\ [][NextRemove]_vars

----------------------------------------------------------------------------
(* Two runs of remove_duplicates, image level, over the same annotation file
   and the same temp_duplicates.csv, each in a process of its own *)

\* the first row that names a node of the component
FirstRow(rows, g) ==
    CHOOSE k \in DOMAIN rows :
        Row1(rows[k]) \in g /\ \A j \in 1..(k - 1) : Row1(rows[j]) \notin g

\* list(nx.connected_components(g)): the components in the order in which
\* their first node was added to the graph
ComponentSeq(rows) ==
    LET G == ConnectedComponents(rows)
        ks == SortedSeq({FirstRow(rows, g) : g \in G})
    IN [n \in DOMAIN ks |-> CHOOSE g \in G : FirstRow(rows, g) = ks[n]]

\* list(group): the members of the set in its iteration order.  The members
\* are tuples (image path, detection id) and the order follows the hashes of
\* the path strings, which change from one process to the next.
GroupLists(g) ==
    {l \in [1..Cardinality(g) -> g] : \A a \in DOMAIN l : \A b \in DOMAIN l :
        a /= b => l[a] /= l[b]}

\* random.randint(0, n - 1) at the k-th call after random.seed(10)
RandInt(k, n) == seeded_draws[k] % n

InitRepro ==
    /\ coco \in CocoFiles
    /\ lat \in {l \in [Images -> Lats] : l[1] = 0}
    /\ apis = MaxApis
    /\ zero_area = {}
    /\ annotations = FromCoco(coco)
    /\ image_paths = SortedSeq(Images)
    /\ worklist = Worklist(FromCoco(coco), lat)
    /\ duplicates_df \in DuplicateFiles(worklist)
    /\ cursor = Len(worklist)
    /\ votes = Unassigned
    /\ combination = <<>>
    /\ groups = {}
    /\ for_deletion = {}
    /\ df = <<>>
    /\ processed_rows = <<>>
    /\ outcomes = <<>>
    /\ local_ann_file_path = ""
    /\ bucket = [x \in {InputBlob} |-> FileOf("inference", FromCoco(coco))]
    /\ files = <<>>
    /\ seeded_draws \in [1..MaxRows -> 0..(MaxDetections - 1)]
    /\ run_deletions = <<>>
    /\ ExtraIdle
    /\ pc = "remove"

\* one run of remove_duplicates in a fresh process: the generator is seeded
\* anew at import, the dataset is loaded anew
RunRemoveDuplicates ==
    /\ pc = "remove"
    /\ LET comps == ComponentSeq(duplicates_df)
       IN \E order \in [DOMAIN comps -> UNION {GroupLists(g) : g \in Range(comps)}] :
            /\ \A k \in DOMAIN comps : order[k] \in GroupLists(comps[k])
            /\ LET marked == UNION {
                       {order[k][n] : n \in DOMAIN order[k] \
                                             {RandInt(k, Len(order[k])) + 1}} :
                       k \in DOMAIN comps}
                   anns == DeleteFrom(FromCoco(coco), DeletionDict(marked))
               IN /\ for_deletion' = marked
                  /\ annotations' = anns
                  /\ image_paths' = PathsAfter(SortedSeq(DOMAIN coco), anns)
                  /\ run_deletions' = Append(run_deletions, marked)
                  /\ files' = ExportFiles(files, local_ann_file_path, ImageOutput, anns)
                  /\ bucket' = ExportBucket(bucket, ImageOutput, anns)
    /\ groups' = ConnectedComponents(duplicates_df)
    /\ pc' = IF Len(run_deletions) = 1 THEN "done" ELSE "remove"
    /\ UNCHANGED <<coco, lat, apis, duplicates_df, worklist, cursor, votes,
                   zero_area, combination, df, processed_rows>>
    /\ UNCHANGED <<outcomes, local_ann_file_path, seeded_draws>>
    /\ UNCHANGED extra_vars

NextRepro == RunRemoveDuplicates

SpecRepro == InitRepro /\ [][NextRepro]_vars

----------------------------------------------------------------------------
(* process_row of location_duplicates_utils.py *)

\* image_ids.count(x)
Count(ids, x) == Cardinality({k \in DOMAIN ids : ids[k] = x})

\* what process_row returns: None, or a one-row frame of the picked entries
None == [none |-> TRUE, image_ids |-> <<>>, annotation_ids |-> <<>>]

\* the frame with the annotation ids taken in the reverse order of the picks
Frame_Reversed(ids, anns, sel) ==
    [none |-> FALSE,
     image_ids |-> [n \in 1..Len(sel) |-> ids[sel[n] + 1]],
     annotation_ids |-> [n \in 1..Len(sel) |-> anns[sel[Len(sel) + 1 - n] + 1]]]

\* {"image_ids": [[image_ids[i] for i in sel]], "annotation_ids": [[...]]}
Frame(ids, anns, sel) ==
    [none |-> FALSE,
     image_ids |-> [n \in 1..Len(sel) |-> ids[sel[n] + 1]],
     annotation_ids |-> [n \in 1..Len(sel) |-> anns[sel[n] + 1]]]

\* random.choice(range(n)): one index
Choice(n) == {<<i>> : i \in 0..(n - 1)}

\* random.sample(population, k): k different members of the population.  The
\* sample is listed in ascending order: its order only orders the ids handed
\* to np.delete, which deletes the same entries in any order.
Sample(population, k) ==
    {SortedSeq(S) : S \in {T \in SUBSET population : Cardinality(T) = k}}

\* max(set(image_ids), key=image_ids.count): the first id of largest count in
\* the iteration order of the set, which is any id of largest count
MajorityIds(ids) ==
    {x \in Range(ids) : \A y \in Range(ids) : Count(ids, y) <= Count(ids, x)}

\* [i for i, x in enumerate(image_ids) if x != majority_id]
IndicesNot(ids, x) == SortedSeq({k - 1 : k \in {j \in DOMAIN ids : ids[j] /= x}})

\* image_ids.index(x)
IndexOf(ids, x) == (CHOOSE k \in DOMAIN ids :
                       ids[k] = x /\ \A j \in 1..(k - 1) : ids[j] /= x) - 1

\* Counter(image_ids).most_common()[0][0]: largest count, first seen first
MostCommon(ids) ==
    CHOOSE x \in MajorityIds(ids) :
        \A y \in MajorityIds(ids) : IndexOf(ids, x) <= IndexOf(ids, y)

\* Case 6 with the majority branch sampling from every index
RowOver4_AnyIndex(ids, anns) ==
    LET n == Len(ids) IN
    IF Cardinality(Range(ids)) = n
    THEN {Frame(ids, anns, sel) : sel \in Sample(0..(n - 1), n - 1)}
    ELSE IF 2 * Count(ids, MostCommon(ids)) > n
    THEN {Frame(ids, anns, sel) : sel \in Sample(0..(n - 1), 2)}
    ELSE IF \A x \in Range(ids) : Count(ids, x) = 2
    THEN {Frame(ids, anns, <<IndexOf(ids, u[1]), IndexOf(ids, u[2])>>) :
             u \in {v \in Range(ids) \X Range(ids) : v[1] /= v[2]}}
    ELSE {Frame(ids, anns, sel) : sel \in Choice(n)}

\* Case 6 with the pairs branch picking both entries of one image id
RowOver4_WholePair(ids, anns) ==
    LET n == Len(ids) IN
    IF Cardinality(Range(ids)) = n
    THEN {Frame(ids, anns, sel) : sel \in Sample(0..(n - 1), n - 1)}
    ELSE IF 2 * Count(ids, MostCommon(ids)) > n
    THEN LET minority == Range(IndicesNot(ids, MostCommon(ids)))
             k == IF Cardinality(minority) < 2 THEN Cardinality(minority) ELSE 2
         IN {Frame(ids, anns, sel) : sel \in Sample(minority, k)}
    ELSE IF \A x \in Range(ids) : Count(ids, x) = 2
    THEN {Frame(ids, anns, SortedSeq({k - 1 : k \in {j \in DOMAIN ids : ids[j] = u}})) :
             u \in Range(ids)}
    ELSE {Frame(ids, anns, sel) : sel \in Choice(n)}

\* Case 6 with the fallback picking two entries
RowOver4_FallbackTwo(ids, anns) ==
    LET n == Len(ids) IN
    IF Cardinality(Range(ids)) = n
    THEN {Frame(ids, anns, sel) : sel \in Sample(0..(n - 1), n - 1)}
    ELSE IF 2 * Count(ids, MostCommon(ids)) > n
    THEN LET minority == Range(IndicesNot(ids, MostCommon(ids)))
             k == IF Cardinality(minority) < 2 THEN Cardinality(minority) ELSE 2
         IN {Frame(ids, anns, sel) : sel \in Sample(minority, k)}
    ELSE IF \A x \in Range(ids) : Count(ids, x) = 2
    THEN {Frame(ids, anns, <<IndexOf(ids, u[1]), IndexOf(ids, u[2])>>) :
             u \in {v \in Range(ids) \X Range(ids) : v[1] /= v[2]}}
    ELSE {Frame(ids, anns, sel) : sel \in Sample(0..(n - 1), 2)}

\* Case 6: more than 4 image_ids
RowOver4(ids, anns) ==
    LET n == Len(ids) IN
    IF Cardinality(Range(ids)) = n
    THEN {Frame(ids, anns, sel) : sel \in Sample(0..(n - 1), n - 1)}
    ELSE IF 2 * Count(ids, MostCommon(ids)) > n
    THEN LET minority == Range(IndicesNot(ids, MostCommon(ids)))
             k == IF Cardinality(minority) < 2 THEN Cardinality(minority) ELSE 2
         IN {Frame(ids, anns, sel) : sel \in Sample(minority, k)}
    ELSE IF \A x \in Range(ids) : Count(ids, x) = 2
    THEN {Frame(ids, anns, <<IndexOf(ids, u[1]), IndexOf(ids, u[2])>>) :
             u \in {v \in Range(ids) \X Range(ids) : v[1] /= v[2]}}
    ELSE {Frame(ids, anns, sel) : sel \in Choice(n)}

\* Case 5 without the test on the number of unique ids: two pairs lose a pair
RowOf4_PairDeleted(ids, anns) ==
    IF Cardinality(Range(ids)) = 4
    THEN {Frame(ids, anns, sel) : sel \in Sample(0..3, 3)}
    ELSE UNION {
        IF Count(ids, m) = 3
        THEN {Frame(ids, anns, <<IndicesNot(ids, m)[1]>>)}
        ELSE IF Count(ids, m) = 2
        THEN {Frame(ids, anns, IndicesNot(ids, m))}
        ELSE {None} : m \in MajorityIds(ids)}

\* Case 5: 4 image_ids; without a return the code falls through to Case 6,
\* which does not apply, and returns None
RowOf4(ids, anns) ==
    IF Cardinality(Range(ids)) = 4
    THEN {Frame(ids, anns, sel) : sel \in Sample(0..3, 3)}
    ELSE UNION {
        IF Count(ids, m) = 3
        THEN {Frame(ids, anns, <<IndicesNot(ids, m)[1]>>)}
        ELSE IF Count(ids, m) = 2
        THEN IF Cardinality(Range(ids)) = 3
             THEN {Frame(ids, anns, IndicesNot(ids, m))}
             ELSE {Frame(ids, anns, sel) : sel \in Choice(4)}
        ELSE {None} : m \in MajorityIds(ids)}

\* Case 4 picking an entry of the majority image instead of the minority
RowOf3_Majority(ids, anns) ==
    IF Cardinality(Range(ids)) = 3
    THEN {Frame(ids, anns, sel) : sel \in Sample(0..2, 2)}
    ELSE UNION {
        IF Count(ids, m) = 2
        THEN {Frame(ids, anns, <<IndexOf(ids, m)>>)}
        ELSE {None} : m \in MajorityIds(ids)}

\* Case 4: 3 image_ids
RowOf3(ids, anns) ==
    IF Cardinality(Range(ids)) = 3
    THEN {Frame(ids, anns, sel) : sel \in Sample(0..2, 2)}
    ELSE UNION {
        IF Count(ids, m) = 2
        THEN {Frame(ids, anns, <<IndicesNot(ids, m)[1]>>)}
        ELSE {None} : m \in MajorityIds(ids)}

\* Case 3 picking both entries
RowOf2_Both(ids, anns) == {Frame(ids, anns, <<0, 1>>)}

\* Case 3: 2 image_ids
RowOf2(ids, anns) == {Frame(ids, anns, sel) : sel \in Choice(2)}

\* process_row without Case 2 (all image_ids the same)
process_row_NoCase2(ids, anns) ==
    IF Len(ids) = 1 THEN {None}
    ELSE IF Len(ids) = 2 THEN RowOf2(ids, anns)
    ELSE IF Len(ids) = 3 THEN RowOf3(ids, anns)
    ELSE IF Len(ids) = 4 THEN RowOf4(ids, anns)
    ELSE RowOver4(ids, anns)

\* process_row(row): the frames it can return for a row
process_row(ids, anns) ==
    IF Len(ids) = 1 THEN {None}
    ELSE IF Cardinality(Range(ids)) = 1 THEN {None}
    ELSE IF Len(ids) = 2 THEN RowOf2(ids, anns)
    ELSE IF Len(ids) = 3 THEN RowOf3(ids, anns)
    ELSE IF Len(ids) = 4 THEN RowOf4(ids, anns)
    ELSE RowOver4(ids, anns)

----------------------------------------------------------------------------
(* Location-level stage: remove_duplicates of location_duplicates_utils.py *)

MaxOf(ids) == CHOOSE x \in Range(ids) : \A y \in Range(ids) : y <= x

\* the image_ids lists of length n.  Image ids are compared for equality
\* only, so they are named by the order in which they first appear.
RECURSIVE ImageIdLists(_)
ImageIdLists(n) ==
    IF n = 1 THEN {<<1>>}
    ELSE UNION {{Append(ids, x) : x \in 1..(MaxOf(ids) + 1)} :
                   ids \in ImageIdLists(n - 1)}

\* a cluster of aggregate: the k-th entry of image i is the detection with
\* index first[i] + k - 1 of that image (contributors are different detections)
ClusterRow(ids, first) ==
    [image_ids |-> ids,
     annotation_ids |->
        [k \in DOMAIN ids |->
            first[ids[k]] + Cardinality({j \in 1..(k - 1) : ids[j] = ids[k]})]]

\* the annotation file the cluster was computed from: image i holds first[i]
\* detections that are in no cluster, then its detections of the cluster
ClusterFile(ids, first) ==
    [i \in Range(ids) |-> [k \in 1..(first[i] + Count(ids, i)) |-> ExportClass]]

\* the entries <<image id, annotation id>> of a row or frame
Entries(r) == {<<r.image_ids[k], r.annotation_ids[k]>> : k \in DOMAIN r.image_ids}

\* df_cleaned: the frames left by processed_rows.dropna()
Cleaned(rows) == SelectSeq(rows, LAMBDA r : ~r.none)

\* the loop filling for_deletion_dict, as nodes <<image id, annotation id>>
Scheduled(rows) == UNION {Entries(rows[k]) : k \in DOMAIN rows}

InitLocation ==
    /\ \E n \in 1..MaxLen : \E ids \in ImageIdLists(n) :
       \E first \in [Range(ids) -> {0, 1}] :
         /\ df = <<ClusterRow(ids, first)>>
         /\ coco = ClusterFile(ids, first)
    /\ annotations = FromCoco(coco)
    /\ image_paths = SortedSeq(DOMAIN coco)
    /\ lat = [i \in DOMAIN coco |-> 0]
    /\ apis = 0
    /\ zero_area = {}
    /\ worklist = <<>>
    /\ duplicates_df = <<>>
    /\ cursor = 0
    /\ votes = Unassigned
    /\ combination = <<>>
    /\ groups = {}
    /\ for_deletion = {}
    /\ processed_rows = <<>>
    /\ pc = "process"
    /\ outcomes = <<>>
    /\ local_ann_file_path = ""
    /\ bucket = [x \in {ImageOutput} |-> FileOf("image stage", FromCoco(coco))]
    /\ files = [x \in {TempAnnotations} |-> FileOf("image stage", FromCoco(coco))]
    /\ ReproIdle
    /\ ExtraIdle

\* df.apply(process_row, axis=1), one row
ProcessRow ==
    /\ pc = "process"
    /\ cursor < Len(df)
    /\ \E r \in process_row(df[cursor + 1].image_ids, df[cursor + 1].annotation_ids) :
         processed_rows' = Append(processed_rows, r)
    /\ cursor' = cursor + 1
    /\ UNCHANGED <<coco, lat, apis, annotations, image_paths, duplicates_df,
                   worklist, votes, zero_area, combination, groups,
                   for_deletion, df, pc>>
    /\ UNCHANGED <<outcomes, store_vars, repro_vars>>
    /\ UNCHANGED extra_vars

\* pd.concat of no frame raises ValueError: remove_duplicates ends there
ConcatRaises ==
    /\ pc = "process"
    /\ cursor = Len(df)
    /\ Cleaned(processed_rows) = <<>>
    /\ pc' = "raised"
    /\ UNCHANGED <<coco, lat, apis, annotations, image_paths, duplicates_df,
                   worklist, cursor, votes, zero_area, combination, groups,
                   for_deletion, df, processed_rows>>
    /\ UNCHANGED <<outcomes, store_vars, repro_vars>>
    /\ UNCHANGED extra_vars

\* the picked entries are deleted from the dataset, emptied images dropped
RemoveLocation ==
    /\ pc = "process"
    /\ cursor = Len(df)
    /\ Cleaned(processed_rows) /= <<>>
    /\ for_deletion' = Scheduled(Cleaned(processed_rows))
    /\ annotations' = DeleteFrom(annotations, DeletionDict(for_deletion'))
    /\ image_paths' = PathsAfter(image_paths, annotations')
    /\ files' = ExportFiles(files, local_ann_file_path, LocationOutput, annotations')
    /\ bucket' = ExportBucket(bucket, LocationOutput, annotations')
    /\ pc' = "done"
    /\ UNCHANGED <<coco, lat, apis, duplicates_df, worklist, cursor, votes,
                   zero_area, combination, groups, df, processed_rows>>
    /\ UNCHANGED <<outcomes, local_ann_file_path, repro_vars>>
    /\ UNCHANGED extra_vars

NextLocation == ProcessRow \/ ConcatRaises \/ RemoveLocation

SpecLocation == InitLocation /\ [][NextLocation]_vars

----------------------------------------------------------------------------
(* run_removal_location: the dataset is loaded from the image-level output,
   find_duplicates writes the aggregation table, remove_duplicates follows *)

\* the clusters of at most 3 entries and the offsets of their images
SmallClusters ==
    UNION {{<<ids, first>> : first \in [Range(ids) -> {0, 1}]} :
              ids \in UNION {ImageIdLists(n) : n \in 1..3}}

\* the annotation file is missing, or is not the output of the image stage
PrerequisiteMissing ==
    IF local_ann_file_path = ""
    THEN ImageOutput \notin DOMAIN bucket
    ELSE ~HasSuffix(local_ann_file_path) \/ local_ann_file_path \notin DOMAIN files

\* the load that falls back on the output of inference
LoadedFile_Fallback ==
    IF local_ann_file_path = ""
    THEN IF ImageOutput \in DOMAIN bucket THEN {bucket[ImageOutput]}
         ELSE {bucket[InputBlob]}
    ELSE IF local_ann_file_path \in DOMAIN files
         THEN {files[local_ann_file_path]} ELSE {bucket[InputBlob]}

\* the file from_coco loads, if it can: the ValueError of line 57, the
\* failed download and the failed read leave nothing
LoadedFile ==
    IF local_ann_file_path = ""
    THEN IF ImageOutput \in DOMAIN bucket THEN {bucket[ImageOutput]} ELSE {}
    ELSE IF HasSuffix(local_ann_file_path) /\ local_ann_file_path \in DOMAIN files
         THEN {files[local_ann_file_path]} ELSE {}

InitRunLocation ==
    /\ \E c \in SmallClusters : coco = ClusterFile(c[1], c[2])
    /\ local_ann_file_path \in {"", LocalInput, LocalImageOutput}
    /\ bucket \in {[x \in {InputBlob} \cup had |->
                        IF x = InputBlob THEN FileOf("inference", FromCoco(coco))
                        ELSE IF x = ImageOutput
                        THEN FileOf("image stage", FromCoco(coco))
                        ELSE Earlier] :
                    had \in SUBSET {ImageOutput, LocationOutput}}
    /\ files \in {[x \in had |-> FileOf("image stage", FromCoco(coco))] :
                   had \in SUBSET ({local_ann_file_path} \ {""})}
    /\ annotations = <<>>
    /\ image_paths = <<>>
    /\ df = <<>>
    /\ lat = [i \in DOMAIN coco |-> 0]
    /\ apis = 0
    /\ zero_area = {}
    /\ worklist = <<>>
    /\ duplicates_df = <<>>
    /\ cursor = 0
    /\ votes = Unassigned
    /\ combination = <<>>
    /\ groups = {}
    /\ for_deletion = {}
    /\ processed_rows = <<>>
    /\ outcomes = <<>>
    /\ ReproIdle
    /\ ExtraIdle
    /\ pc = "load"

\* lines 54-88: the dataset is loaded, or the stage raises; find_duplicates
\* then writes the aggregation table of the clusters of the dataset
LoadLocation ==
    /\ pc = "load"
    /\ IF LoadedFile = {}
       THEN /\ pc' = "raised"
            /\ UNCHANGED <<annotations, image_paths, df, files>>
       ELSE \E f \in LoadedFile :
            /\ annotations' = f.data
            /\ image_paths' = SortedSeq(DOMAIN f.data)
            /\ files' = IF local_ann_file_path = ""
                         THEN Put(files, TempAnnotations, f) ELSE files
            /\ \E c \in SmallClusters :
                  /\ FromCoco(ClusterFile(c[1], c[2])) = f.data
                  /\ df' = <<ClusterRow(c[1], c[2])>>
            /\ pc' = "process"
    /\ UNCHANGED <<coco, lat, apis, duplicates_df, worklist, cursor, votes,
                   zero_area, combination, groups, for_deletion,
                   processed_rows, outcomes, bucket, local_ann_file_path>>
    /\ UNCHANGED repro_vars
    /\ UNCHANGED extra_vars

NextRunLocation == LoadLocation \/ NextLocation

SpecRunLocation == InitRunLocation /\ [][NextRunLocation]_vars

----------------------------------------------------------------------------
(* aggregate of location_estimator/aggregate.py.  Points lie in the planar
   frame of get_xy, in whole units; squared distances are compared as the
   code compares them. *)

\* default of min_distance_between_shops
min_distance_between_shops == 8

\* m = 2147483647: dis[i] of a point with no denser point
Sentinel == 2147483647

\* min dist between stores
threshold_2 == min_distance_between_shops

\* the planar positions of the points
Positions == {<<0, 0>>, <<3, 0>>, <<0, 3>>, <<12, 0>>}

\* the draws of np.random.rand(), in increasing order; two draws can be equal
Draws == {0, 1}

\* the lists of points aggregate can be handed; the id of a point is its
\* annotation_index
ObjectLists ==
    {[i \in DOMAIN f |-> [x |-> f[i][1], y |-> f[i][2], id |-> i - 1]] :
        f \in UNION {[1..n -> Positions] : n \in 0..MaxPoints}}

\* xy = objects[0].get_xy(objects[i]): the position relative to point 0
px(i) == objects[i].x - objects[1].x
py(i) == objects[i].y - objects[1].y

\* (px[i] - px[j]) ** 2 + (py[i] - py[j]) ** 2
SqDist(i, j) ==
    (px(i) - px(j)) * (px(i) - px(j)) + (py(i) - py(j)) * (py(i) - py(j))

\* i != j and the squared distance below threshold_1 ** 2, where
\* threshold_1 = threshold_2 / 2
IsNear(i, j) == i /= j /\ 4 * SqDist(i, j) < threshold_2 * threshold_2

\* the j of the inner loop that pass the test, in loop order
NearOf(i) == SortedSeq({j \in DOMAIN objects : IsNear(i, j)})

\* ann_id[i] after the inner loop: [objects[i].id] and the appended ids
AnnIdOf(i) ==
    <<objects[i].id>> \o [k \in 1..Len(NearOf(i)) |-> objects[NearOf(i)[k]].id]

\* rho[j] > rho[i], where rho = s + np.random.rand() * 0.01 and the second
\* term is below 1: the larger s, and for equal s the larger draw
Denser(a, b) == a[1] > b[1] \/ (a[1] = b[1] /\ a[2] > b[2])

RECURSIVE MinSqDist(_, _, _)
\* the loop over j of lines 54-56, from m, over the points in S
MinSqDist(i, S, m) ==
    IF S = {} THEN m
    ELSE LET j == CHOOSE x \in S : TRUE
             d == SqDist(i, j)
         IN MinSqDist(i, S \ {j}, IF d < m THEN d ELSE m)

\* dis[i]: the least squared distance to a denser point, or the sentinel
DisOf(i) ==
    MinSqDist(i, {j \in DOMAIN objects : Denser(rho[j], rho[i])}, Sentinel)

\* the test against the density radius: dis[i] > threshold_1 ** 2
IsExemplar_DensityRadius(d) == d > (threshold_2 * threshold_2) \div 4

\* dis[i] > threshold_2 ** 2
IsExemplar(d) == d > threshold_2 * threshold_2

PipelineIdle ==
    /\ coco = <<>>
    /\ lat = <<>>
    /\ apis = 0
    /\ annotations = <<>>
    /\ image_paths = <<>>
    /\ duplicates_df = <<>>
    /\ worklist = <<>>
    /\ votes = Unassigned
    /\ zero_area = {}
    /\ combination = <<>>
    /\ groups = {}
    /\ for_deletion = {}
    /\ df = <<>>
    /\ processed_rows = <<>>
    /\ outcomes = <<>>
    /\ StoreIdle
    /\ ReproIdle

InitAggregate ==
    /\ objects \in ObjectLists
    /\ est = <<>>
    /\ rho = <<>>
    /\ ann_id = <<>>
    /\ dis = <<>>
    /\ aggregated_objects = <<>>
    /\ cursor = 0
    /\ pc = "density"
    /\ PipelineIdle
    /\ BuildingIdle

\* if num < 1: return []
AggregateNothing ==
    /\ pc = "density"
    /\ Len(objects) < 1
    /\ pc' = "done"
    /\ UNCHANGED <<pipeline_vars, cursor, aggregate_vars>>
    /\ UNCHANGED building_vars

\* one pass of the loop of lines 30-48: density and contributors of point i
Density ==
    /\ pc = "density"
    /\ cursor < Len(objects)
    /\ LET i == cursor + 1
           s == 1 + Len(NearOf(i))
       IN /\ \E rand \in Draws : rho' = Append(rho, <<s, rand>>)
          /\ ann_id' = Append(ann_id, AnnIdOf(i))
          /\ cursor' = IF i = Len(objects) THEN 0 ELSE i
          /\ pc' = IF i = Len(objects) THEN "isolation" ELSE "density"
    /\ UNCHANGED <<pipeline_vars, est, objects, dis, aggregated_objects>>
    /\ UNCHANGED building_vars

\* one pass of the loop of lines 52-57: dis[i]
Isolation ==
    /\ pc = "isolation"
    /\ cursor < Len(objects)
    /\ LET i == cursor + 1
       IN /\ dis' = Append(dis, DisOf(i))
          /\ cursor' = IF i = Len(objects) THEN 0 ELSE i
          /\ pc' = IF i = Len(objects) THEN "emit" ELSE "isolation"
    /\ UNCHANGED <<pipeline_vars, est, objects, rho, ann_id, aggregated_objects>>
    /\ UNCHANGED building_vars

\* the loop of lines 59-67: the points that are returned
Emit ==
    /\ pc = "emit"
    /\ aggregated_objects' = SortedSeq({i \in DOMAIN objects : IsExemplar(dis[i])})
    /\ pc' = "done"
    /\ UNCHANGED <<pipeline_vars, cursor, est, objects, rho, ann_id, dis>>
    /\ UNCHANGED building_vars

NextAggregate == AggregateNothing \/ Density \/ Isolation \/ Emit

SpecAggregate == InitAggregate /\ [][NextAggregate]_vars

----------------------------------------------------------------------------
(* BuildingManager of location_estimator/buildingmanager.py.  A LatLng is a
   pair <<lat, lng>> of the local planar frame, in whole units. *)

\* create_grid(self, interval=50)
interval == 50

\* starting values of max_lat, max_lng and of min_lat, min_lng
MaxStart == -999999
MinStart == 9999999

\* a.get_xy(b): the planar offset of b from a
get_xy(a, b) == [x |-> b[2] - a[2], y |-> b[1] - a[1]]

\* the footprints of the buildings file, each the list of its nodes
Footprints ==
    << <<(<<0, 0>>), (<<0, 60>>), (<<49, 60>>)>>,
       <<(<<100, 100>>), (<<150, 150>>)>>,
       <<(<<50, 10000>>), (<<120, 10049>>)>>,
       <<(<<10000, 0>>)>> >>

\* a row of the buildings file whose geometry text is a polygon with the
\* nodes given, meeting the bounding box or not
PolygonRecord(nodes, inside) ==
    [geometry |-> "polygon", nodes |-> nodes, inside |-> inside]

\* a row whose geometry text is something else: "unparsable" is no WKT,
\* "missing" is an empty field, "empty" is POLYGON EMPTY, "point" is a POINT
\* inside the bounding box
OtherRecord(geometry) ==
    [geometry |-> geometry, nodes |-> <<>>, inside |-> geometry = "point"]

\* the lists of buildings load_and_filter_buildings can leave: the footprints
\* that meet the bounding box, in the order of the file
BuildingLists == {SubList(Footprints, I) : I \in SUBSET (DOMAIN Footprints)}

\* the nodes of all buildings
AllBuildingNodes(bs) == UNION {Range(bs[b]) : b \in DOMAIN bs}

RECURSIVE MaxFrom(_, _)
\* max(m, v) over the values of S, from m
MaxFrom(m, S) ==
    IF S = {} THEN m
    ELSE LET v == CHOOSE x \in S : TRUE
         IN MaxFrom(IF v > m THEN v ELSE m, S \ {v})

RECURSIVE MinFrom(_, _)
\* min(m, v) over the values of S, from m
MinFrom(m, S) ==
    IF S = {} THEN m
    ELSE LET v == CHOOSE x \in S : TRUE
         IN MinFrom(IF v < m THEN v ELSE m, S \ {v})

\* int(v / interval) for v >= 0
IntDiv(v) == v \div interval

\* the cell a node is appended to: [int(x / interval) + 1][int(y / interval) + 1]
NodeCell(origin, nd) ==
    <<IntDiv(Abs(get_xy(origin, nd).x)) + 1, IntDiv(Abs(get_xy(origin, nd).y)) + 1>>

\* the index a list of length n is read at for index i: a negative index
\* counts from the end
PyIndex(i, n) == IF i < 0 THEN i + n ELSE i

\* self.building_grid[i][j]
GridAt(g, c) ==
    LET d == <<PyIndex(c[1], nx), PyIndex(c[2], ny)>>
    IN IF d \in DOMAIN g THEN g[d] ELSE <<>>

\* the pairs <<building, node>> in the order of the loops of lines 218-219
NodeVisits(bs) ==
    Flatten([b \in DOMAIN bs |-> [k \in DOMAIN bs[b] |-> <<b, bs[b][k]>>]])

\* the grid after the loops of lines 218-224
Populate(bs, origin) ==
    LET visits == NodeVisits(bs)
        cells == {NodeCell(origin, visits[k][2]) : k \in DOMAIN visits}
    IN [c \in cells |->
          LET ks == SelectSeq([k \in DOMAIN visits |-> k],
                              LAMBDA k : NodeCell(origin, visits[k][2]) = c)
          IN [n \in DOMAIN ks |-> visits[ks[n]][1]]]

\* the neighbourhood cut down to range(-2, 1)
Offsets_Short == <<-2, -1, 0>>

\* range(-2, 4)
Offsets == <<-2, -1, 0, 1, 2, 3>>

\* 0 <= i < self.nx and 0 <= j < self.ny
InGrid(c) == 0 <= c[1] /\ c[1] < nx /\ 0 <= c[2] /\ c[2] < ny

\* the cells find_buildings reads, in loop order
VisitedCells(p) ==
    LET x == Abs(get_xy(<<min_lat, min_lng>>, p).x)
        y == Abs(get_xy(<<min_lat, min_lng>>, p).y)
        all == Flatten([i \in DOMAIN Offsets |->
                          [j \in DOMAIN Offsets |->
                              <<IntDiv(x) + Offsets[i], IntDiv(y) + Offsets[j]>>]])
    IN SelectSeq(all, InGrid)

RECURSIVE Dedup(_, _)
\* if b not in nearest: nearest.append(b), over the list l
Dedup(acc, l) ==
    IF l = <<>> THEN acc
    ELSE Dedup(IF Head(l) \in Range(acc) THEN acc ELSE Append(acc, Head(l)),
               Tail(l))

\* find_buildings reads a cell that is not in the grid: IndexError
ReadsOutside(p) ==
    \E c \in Range(VisitedCells(p)) :
        ~(c[1] \in -nx..(nx - 1) /\ c[2] \in -ny..(ny - 1))

\* what find_buildings(point) returns
FindBuildingsOf(p) ==
    LET cells == VisitedCells(p)
    IN Dedup(<<>>, Flatten([k \in DOMAIN cells |-> GridAt(building_grid, cells[k])]))

\* the points find_buildings is called with: the nodes, and the points at
\* and beyond the bounding box of the nodes
QueryPoints(bs) ==
    LET nodes == AllBuildingNodes(bs)
        lats == {nd[1] : nd \in nodes}
        lngs == {nd[2] : nd \in nodes}
        far == {10000, 10030}
        ext(S) == {MinFrom(MinStart, S) - d : d \in far} \cup S
                    \cup {MaxFrom(MaxStart, S) + d : d \in far}
    IN nodes \cup (ext(lats) \X ext(lngs))

InitBuildings ==
    /\ buildings \in BuildingLists
    /\ records = [k \in DOMAIN buildings |-> PolygonRecord(buildings[k], TRUE)]
    /\ building_grid = <<>>
    /\ nx = 0
    /\ ny = 0
    /\ min_lat = 0
    /\ min_lng = 0
    /\ point = <<>>
    /\ nearest = <<>>
    /\ cursor = 0
    /\ pc = "create"
    /\ PipelineIdle
    /\ AggregateIdle

\* create_grid: bounding box of the nodes, dimensions, population
CreateGrid ==
    /\ pc = "create"
    /\ LET nodes == AllBuildingNodes(buildings)
           max_lat == MaxFrom(MaxStart, {nd[1] : nd \in nodes})
           max_lng == MaxFrom(MaxStart, {nd[2] : nd \in nodes})
           lo_lat == MinFrom(MinStart, {nd[1] : nd \in nodes})
           lo_lng == MinFrom(MinStart, {nd[2] : nd \in nodes})
           width == Abs(get_xy(<<lo_lat, lo_lng>>, <<max_lat, max_lng>>).x)
           height == Abs(get_xy(<<lo_lat, lo_lng>>, <<max_lat, max_lng>>).y)
           grid == Populate(buildings, <<lo_lat, lo_lng>>)
       IN /\ min_lat' = lo_lat
          /\ min_lng' = lo_lng
          /\ nx' = IntDiv(width) + 3
          /\ ny' = IntDiv(height) + 3
          /\ building_grid' = grid
          /\ pc' = IF \A c \in DOMAIN grid :
                         c[1] < IntDiv(width) + 3 /\ c[2] < IntDiv(height) + 3
                    THEN "ready" ELSE "raised"
    /\ UNCHANGED <<pipeline_vars, cursor, aggregate_vars, records, buildings,
                   point, nearest>>

\* find_buildings(point)
FindBuildings ==
    /\ pc = "ready"
    /\ \E p \in QueryPoints(buildings) :
         /\ point' = p
         /\ nearest' = IF ReadsOutside(p) THEN <<>> ELSE FindBuildingsOf(p)
         /\ pc' = IF ReadsOutside(p) THEN "raised" ELSE "found"
    /\ UNCHANGED <<pipeline_vars, cursor, aggregate_vars, records, buildings,
                   building_grid, nx, ny, min_lat, min_lng>>

NextBuildings == CreateGrid \/ FindBuildings

SpecBuildings == InitBuildings /\ [][NextBuildings]_vars

----------------------------------------------------------------------------
(* BuildingManager.__init__: load_and_filter_buildings, then create_grid *)

MaxRecords == 3

\* the rows a buildings file can hold
Records ==
    {PolygonRecord(Footprints[1], TRUE), PolygonRecord(Footprints[2], TRUE),
     PolygonRecord(Footprints[3], FALSE)}
    \cup {OtherRecord(g) : g \in {"unparsable", "missing", "empty", "point"}}

RecordLists == UNION {[1..n -> Records] : n \in 0..MaxRecords}

\* wkt.loads(text) raises: the text is no WKT, or the field is not a string
WktLoadsRaises(r) == r.geometry \in {"unparsable", "missing"}

\* possible_matches.intersects(bounding_box_polygon)
Intersects(r) == r.geometry /= "empty" /\ r.inside

\* parse_geometry followed by the node lists of lines 98-112: the nodes of a
\* polygon or multipolygon, no node for None
NodesOf(r) == IF r.geometry = "polygon" THEN r.nodes ELSE <<>>

\* self.buildings after the loop of lines 92-121 over the filtered rows
LoadedBuildings(rs) ==
    LET kept == SelectSeq(rs, LAMBDA r : Intersects(r) /\ NodesOf(r) /= <<>>)
    IN [k \in DOMAIN kept |-> NodesOf(kept[k])]

InitLoadBuildings ==
    /\ records \in RecordLists
    /\ buildings = <<>>
    /\ building_grid = <<>>
    /\ nx = 0
    /\ ny = 0
    /\ min_lat = 0
    /\ min_lng = 0
    /\ point = <<>>
    /\ nearest = <<>>
    /\ cursor = 0
    /\ pc = "load"
    /\ PipelineIdle
    /\ AggregateIdle

\* load_and_filter_buildings: df["geometry"].apply(wkt.loads) over every row,
\* the filter on the bounding box, then the loop building self.buildings
LoadBuildings ==
    /\ pc = "load"
    /\ IF \E k \in DOMAIN records : WktLoadsRaises(records[k])
       THEN /\ pc' = "raised"
            /\ UNCHANGED buildings
       ELSE /\ pc' = "create"
            /\ buildings' = LoadedBuildings(records)
    /\ UNCHANGED <<pipeline_vars, cursor, aggregate_vars, records,
                   building_grid, nx, ny, min_lat, min_lng, point, nearest>>

NextLoadBuildings == LoadBuildings \/ CreateGrid

SpecLoadBuildings == InitLoadBuildings /\ [][NextLoadBuildings]_vars

----------------------------------------------------------------------------
(* run_removal_location after the load: create_annotation_csvs,
   estimate_locations, aggregate_shops with aggregate, remove_duplicates and
   the removal of the intermediary files *)

\* img_ann, det_ann, det_ann_estimations, det_ann_estimations_aggregated
ImgAnn == "image_data.csv"
DetAnn == "annotations_data.csv"
DetAnnEstimations == "annotations_data_estimation.csv"
DetAnnEstimationsAggregated == "annotations_data_estimation_aggregated.csv"

\* files_to_remove without the aggregated table
IntermediaryFiles_ButAggregated == {ImgAnn, DetAnn, DetAnnEstimations}

\* files_to_remove
IntermediaryFiles == {ImgAnn, DetAnn, DetAnnEstimations, DetAnnEstimationsAggregated}

\* city.locate(a) returned None
NoEstimate == <<>>

\* the locations city.locate can return, in the planar frame
EstimatePositions == {<<0, 0>>, <<3, 0>>, <<6, 0>>, <<12, 0>>}

\* the annotation files of the stage: two images of up to two detections
LocationFiles ==
    {f \in [Images -> UNION {[1..n -> {ExportClass, OtherClass}] : n \in 0..2}] :
        \E i \in Images : \E k \in DOMAIN f[i] : f[i][k] = ExportClass}

\* the estimates estimate_locations can give for a file: a location or None
\* for a detection of the class, nothing for any other detection
EstimatesOf(f) ==
    {e \in [Images -> UNION {[1..n -> EstimatePositions \cup {NoEstimate}] : n \in 0..2}] :
        \A i \in Images :
            /\ Len(e[i]) = Len(f[i])
            /\ \A k \in DOMAIN f[i] : f[i][k] /= ExportClass => e[i][k] = NoEstimate}

\* the rows of det_ann: the detections of the class, image by image in the
\* order of the dataset, each with its annotation_index
DetectionRows(anns) ==
    Flatten([n \in 1..Len(image_paths) |->
               LET i == image_paths[n]
                   ks == ClassIndices(anns[i], ExportClass)
               IN [m \in DOMAIN ks |-> <<i, ks[m]>>]])

\* the points without the dropna: a row without estimate is a point at the
\* origin of the frame
PointsOf_NoDropna(anns, e) ==
    LET rows == DetectionRows(anns)
        at(r) == IF e[r[1]][r[2] + 1] = NoEstimate THEN <<0, 0>>
                 ELSE e[r[1]][r[2] + 1]
    IN [k \in DOMAIN rows |->
          [x |-> at(rows[k])[1],
           y |-> at(rows[k])[2],
           id |-> rows[k][2],
           image |-> rows[k][1]]]

\* points of aggregate_shops: the rows left by dropna on est_lat, est_lng
PointsOf(anns, e) ==
    LET rows == SelectSeq(DetectionRows(anns),
                          LAMBDA r : e[r[1]][r[2] + 1] /= NoEstimate)
    IN [k \in DOMAIN rows |->
          [x |-> e[rows[k][1]][rows[k][2] + 1][1],
           y |-> e[rows[k][1]][rows[k][2] + 1][2],
           id |-> rows[k][2],
           image |-> rows[k][1]]]

\* image[i] after the inner loop: [objects[i].image] and the appended images
ImageOf(i) ==
    <<objects[i].image>> \o [k \in 1..Len(NearOf(i)) |-> objects[NearOf(i)[k]].image]

\* agg_data: one row per point aggregate returned
AggData ==
    [k \in DOMAIN aggregated_objects |->
        [image_ids |-> ImageOf(aggregated_objects[k]),
         annotation_ids |-> ann_id[aggregated_objects[k]]]]

InitFindLocation ==
    /\ coco \in LocationFiles
    /\ est \in EstimatesOf(coco)
    /\ annotations = FromCoco(coco)
    /\ image_paths = SortedSeq(DOMAIN coco)
    /\ lat = [i \in DOMAIN coco |-> 0]
    /\ apis = 0
    /\ zero_area = {}
    /\ worklist = <<>>
    /\ duplicates_df = <<>>
    /\ cursor = 0
    /\ votes = Unassigned
    /\ combination = <<>>
    /\ groups = {}
    /\ for_deletion = {}
    /\ df = <<>>
    /\ processed_rows = <<>>
    /\ outcomes = <<>>
    /\ local_ann_file_path = ""
    /\ bucket = [x \in {ImageOutput} |-> FileOf("image stage", FromCoco(coco))]
    /\ files \in {[x \in {TempAnnotations} \cup left |->
                       IF x = TempAnnotations
                       THEN FileOf("image stage", FromCoco(coco)) ELSE Earlier] :
                    left \in {{}, IntermediaryFiles}}
    /\ ReproIdle
    /\ objects = <<>>
    /\ rho = <<>>
    /\ ann_id = <<>>
    /\ dis = <<>>
    /\ aggregated_objects = <<>>
    /\ BuildingIdle
    /\ pc = "estimate"

\* create_annotation_csvs and estimate_locations write their tables;
\* aggregate_shops reads the estimations and hands the points to aggregate
EstimateLocations ==
    /\ pc = "estimate"
    /\ files' = Put(Put(Put(files, ImgAnn, FileOf("this run", image_paths)),
                        DetAnn, FileOf("this run", DetectionRows(annotations))),
                    DetAnnEstimations, FileOf("this run", est))
    /\ objects' = PointsOf(annotations, files'[DetAnnEstimations].data)
    /\ pc' = "density"
    /\ UNCHANGED <<coco, lat, apis, annotations, image_paths, duplicates_df,
                   worklist, cursor, votes, zero_area, combination, groups,
                   for_deletion, df, processed_rows, outcomes, bucket,
                   local_ann_file_path, repro_vars>>
    /\ UNCHANGED <<est, rho, ann_id, dis, aggregated_objects, building_vars>>

\* aggregate has returned: df_agg.to_csv(det_ann_estimations_aggregated), and
\* remove_duplicates reads the table back
WriteAggregated ==
    /\ pc = "done"
    /\ processed_rows = <<>>
    /\ files' = Put(files, DetAnnEstimationsAggregated, FileOf("this run", AggData))
    /\ df' = files'[DetAnnEstimationsAggregated].data
    /\ pc' = "process"
    /\ UNCHANGED <<coco, lat, apis, annotations, image_paths, duplicates_df,
                   worklist, cursor, votes, zero_area, combination, groups,
                   for_deletion, processed_rows, outcomes, bucket,
                   local_ann_file_path, repro_vars>>
    /\ UNCHANGED extra_vars

\* remove_duplicates has returned: the intermediary files are removed
RemoveIntermediary ==
    /\ pc = "done"
    /\ processed_rows /= <<>>
    /\ files' = Remove(files, IntermediaryFiles)
    /\ pc' = "returned"
    /\ UNCHANGED <<coco, lat, apis, annotations, image_paths, duplicates_df,
                   worklist, cursor, votes, zero_area, combination, groups,
                   for_deletion, df, processed_rows, outcomes, bucket,
                   local_ann_file_path, repro_vars>>
    /\ UNCHANGED extra_vars

NextFindLocation ==
    \/ EstimateLocations
    \/ NextAggregate
    \/ WriteAggregated
    \/ NextLocation
    \/ RemoveIntermediary

SpecFindLocation == InitFindLocation /\ [][NextFindLocation]_vars

----------------------------------------------------------------------------
(* Export and reload: save_coco_annotations and load_coco_annotations of
   dataset_utils.py.  A file name is the image path without its directory;
   the images of a dataset lie in one directory. *)

\* detections_to_coco_annotations: one annotation per detection of the
\* image, in order, carrying the image_id
ImageAnnotations(d, image_id) ==
    [k \in 1..DetLen(d) |->
        [image_id |-> image_id, bbox |-> d.xyxy[k], category_id |-> d.class_id[k]]]

\* save_coco_annotations with every coco image given the id 1
as_coco_OneId(paths, anns) ==
    [images |-> [n \in DOMAIN paths |-> [id |-> 1, file_name |-> paths[n]]],
     annotations |-> Flatten([n \in DOMAIN paths |-> ImageAnnotations(anns[paths[n]], 1)])]

\* save_coco_annotations: the images in the order of the dataset with ids
\* from 1, the annotations of all images in one list
as_coco(paths, anns) ==
    [images |-> [n \in DOMAIN paths |-> [id |-> n, file_name |-> paths[n]]],
     annotations |-> Flatten([n \in DOMAIN paths |-> ImageAnnotations(anns[paths[n]], n)])]

\* coco_annotations_groups.get(coco_image["id"], [])
GroupOf(data, id) == SelectSeq(data.annotations, LAMBDA a : a.image_id = id)

\* load_coco_annotations: annotations[image_path], the last coco image of a
\* file name giving the entry
load_coco_annotations(data) ==
    [i \in {data.images[n].file_name : n \in DOMAIN data.images} |->
        LET n == CHOOSE m \in DOMAIN data.images :
                    /\ data.images[m].file_name = i
                    /\ \A l \in DOMAIN data.images :
                          data.images[l].file_name = i => l <= m
            g == GroupOf(data, data.images[n].id)
        IN [xyxy |-> [k \in DOMAIN g |-> g[k].bbox],
            class_id |-> [k \in DOMAIN g |-> g[k].category_id]]]

\* images of load_coco_annotations, duplicates eliminated by the dataset
LoadedPaths(data) ==
    Dedup(<<>>, [n \in DOMAIN data.images |-> data.images[n].file_name])

\* the detections of the class of interest
ExportNodes(f) == {n \in AllNodes(f) : f[n[1]][n[2] + 1] = ExportClass}

\* the dataset of a stage after its deletions, about to be exported
InitRoundTrip ==
    /\ coco \in CocoFiles
    /\ for_deletion \in SUBSET ExportNodes(coco)
    /\ annotations = DeleteFrom(FromCoco(coco), DeletionDict(for_deletion))
    /\ image_paths = PathsAfter(SortedSeq(Images), annotations)
    /\ lat = [i \in Images |-> 0]
    /\ apis = 0
    /\ zero_area = {}
    /\ worklist = <<>>
    /\ duplicates_df = <<>>
    /\ cursor = 0
    /\ votes = Unassigned
    /\ combination = <<>>
    /\ groups = {}
    /\ df = <<>>
    /\ processed_rows = <<>>
    /\ outcomes = <<>>
    /\ local_ann_file_path = LocalInput
    /\ bucket = <<>>
    /\ files = <<>>
    /\ ReproIdle
    /\ ExtraIdle
    /\ pc = "export"

\* dataset.as_coco(annotations_path=output_filepath)
ExportCoco ==
    /\ pc = "export"
    /\ files' = Put(files, OutputFilepath(local_ann_file_path, ImageOutput),
                    FileOf("this run", as_coco(image_paths, annotations)))
    /\ pc' = "exported"
    /\ UNCHANGED <<coco, lat, apis, annotations, image_paths, duplicates_df,
                   worklist, cursor, votes, zero_area, combination, groups,
                   for_deletion, df, processed_rows, outcomes, bucket,
                   local_ann_file_path, repro_vars>>
    /\ UNCHANGED extra_vars

\* DetectionDataset.from_coco of the file just written
ReloadCoco ==
    /\ pc = "exported"
    /\ LET data == files[OutputFilepath(local_ann_file_path, ImageOutput)].data
       IN /\ annotations' = load_coco_annotations(data)
          /\ image_paths' = LoadedPaths(data)
    /\ pc' = "reloaded"
    /\ UNCHANGED <<coco, lat, apis, duplicates_df, worklist, cursor, votes,
                   zero_area, combination, groups, for_deletion, df,
                   processed_rows, outcomes, store_vars, repro_vars>>
    /\ UNCHANGED extra_vars

NextRoundTrip == ExportCoco \/ ReloadCoco

SpecRoundTrip == InitRoundTrip /\ [][NextRoundTrip]_vars

----------------------------------------------------------------------------
(* Properties *)

\* the detection <<image, detection id of the loaded file>> is in the dataset
Survives(n) ==
    /\ n[1] \in DOMAIN annotations
    /\ n[2] \in Range(annotations[n[1]].xyxy)

RECURSIVE TotalDetections(_, _)
TotalDetections(anns, S) ==
    IF S = {} THEN 0
    ELSE LET i == CHOOSE x \in S : TRUE
         IN DetLen(anns[i]) + TotalDetections(anns, S \ {i})

RECURSIVE SumSizesLessOne(_)
SumSizesLessOne(G) ==
    IF G = {} THEN 0
    ELSE LET g == CHOOSE x \in G : TRUE
         IN (Cardinality(g) - 1) + SumSizesLessOne(G \ {g})

\* the nodes named by a row of the duplicates dataframe
TouchedNodes == UNION {{<<r[1], r[2]>>, <<r[3], r[4]>>} : r \in Range(duplicates_df)}

\* C1: for the combination evaluated last (its crops not degenerate), its row
\* is in the duplicates dataframe if and only if the verifiers voting 'match'
\* are at least floor(N/2)+1 of the N verifiers; and every row of the
\* dataframe is a combination already gone through, of two detections of the
\* class of interest.
C1_MajorityRule ==
    /\ (combination /= <<>> /\ ~CropEmpty(combination)) =>
          ((combination \in Range(duplicates_df)) <=> (votes >= (apis \div 2) + 1))
    /\ \A r \in Range(duplicates_df) :
          /\ \E k \in 1..cursor : worklist[k] = r
          /\ annotations[r[1]].class_id[r[2] + 1] = ExportClass
          /\ annotations[r[3]].class_id[r[4] + 1] = ExportClass

\* C1 witness: three verifiers, two votes, and the row was recorded
C1_Witness ==
    /\ apis = 3
    /\ votes = 2
    /\ combination /= <<>>
    /\ combination \in Range(duplicates_df)

\* C2: once remove_duplicates is through, exactly one member of every
\* connected component is still in the dataset, and the number of detections
\* removed is the sum over the components of (size - 1).
C2_OneSurvivorPerComponent ==
    pc = "done" =>
        /\ \A g \in groups : Cardinality({n \in g : Survives(n)}) = 1
        /\ TotalDetections(FromCoco(coco), DOMAIN coco)
             - TotalDetections(annotations, DOMAIN annotations)
           = SumSizesLessOne(groups)

\* C2 witness: a component of three detections was reduced to one
C2_Witness ==
    /\ pc = "done"
    /\ \E g \in groups : Cardinality(g) = 3 /\ Cardinality(g \cap for_deletion) = 2

\* C3: the components are non-empty, pairwise disjoint and cover exactly the
\* nodes named by some row of the duplicates dataframe; a detection named by
\* no row is still in the dataset, with its box and class, once
\* remove_duplicates is through.
C3_UntouchedKept ==
    pc = "done" =>
        /\ UNION groups = TouchedNodes
        /\ \A g \in groups : g /= {}
        /\ \A g \in groups : \A h \in groups : g /= h => g \cap h = {}
        /\ \A n \in AllNodes(coco) \ TouchedNodes :
              /\ n \notin for_deletion
              /\ n[1] \in DOMAIN annotations
              /\ \E k \in DOMAIN annotations[n[1]].xyxy :
                    /\ annotations[n[1]].xyxy[k] = n[2]
                    /\ annotations[n[1]].class_id[k] = coco[n[1]][n[2] + 1]

\* C3 witness: a detection was deleted from an image that also holds a
\* detection no row names, at a later index
C3_Witness ==
    /\ pc = "done"
    /\ \E n \in AllNodes(coco) \ TouchedNodes :
          \E m \in for_deletion : m[1] = n[1] /\ m[2] < n[2]

----------------------------------------------------------------------------
(* Properties of the cluster policy.  The aggregation table holds one
   cluster, df[1]; its entries are <<image id, annotation id>>. *)

ClusterIds == df[1].image_ids

\* process_row has returned for the cluster
Processed == Len(processed_rows) = 1

\* the entries process_row picked, which remove_duplicates schedules
Picked == Entries(processed_rows[1])

\* the entries of the cluster that are no longer in the dataset
Deleted == {e \in Entries(df[1]) : ~Survives(e)}

AllDistinct(ids) == Cardinality(Range(ids)) = Len(ids)
AllSame(ids) == Cardinality(Range(ids)) = 1
\* one image id has k of the entries and every other id has a single entry
OneGroupOf(ids, k) ==
    \E x \in Range(ids) :
        Count(ids, x) = k /\ \A y \in Range(ids) \ {x} : Count(ids, y) = 1
AllTwice(ids) == \A x \in Range(ids) : Count(ids, x) = 2
StrictMajority(ids) == \E x \in Range(ids) : 2 * Count(ids, x) > Len(ids)

\* C4: a cluster [A, B] of two images: process_row picks exactly one of the
\* two entries, and after remove_duplicates exactly that entry is gone from
\* the dataset and the other is still there.
C4_PairOneDeleted ==
    (Len(ClusterIds) = 2 /\ AllDistinct(ClusterIds)) =>
        /\ pc /= "raised"
        /\ Processed =>
              /\ ~processed_rows[1].none
              /\ Len(processed_rows[1].image_ids) = 1
              /\ Picked \subseteq Entries(df[1])
        /\ pc = "done" => (Cardinality(Deleted) = 1 /\ Deleted = Picked)

\* C4 witness: the second entry of a two-image cluster was deleted
C4_Witness ==
    /\ Len(ClusterIds) = 2
    /\ AllDistinct(ClusterIds)
    /\ pc = "done"
    /\ Deleted = {<<df[1].image_ids[2], df[1].annotation_ids[2]>>}

C6_NothingScheduled ==
    (Len(ClusterIds) = 1 \/ AllSame(ClusterIds)) =>
        /\ Processed => (processed_rows[1].none /\ Picked = {})
        /\ for_deletion = {}
        /\ annotations = FromCoco(coco)

\* C6 witness: process_row has returned for [A, A, A, A]
C6_Witness ==
    /\ ClusterIds = <<1, 1, 1, 1>>
    /\ Processed
    /\ processed_rows[1].none

\* C7: for a cluster of n >= 3 pairwise different image ids, exactly one
\* entry is deleted from the dataset and the other n - 1 are kept.
C7_AllDistinctOneDeleted ==
    (Len(ClusterIds) >= 3 /\ AllDistinct(ClusterIds) /\ pc = "done") =>
        Cardinality(Deleted) = 1

Fallback(ids) ==
    \/ /\ Len(ids) = 4
       /\ ~AllSame(ids)
       /\ ~AllDistinct(ids)
       /\ ~OneGroupOf(ids, 3)
       /\ ~OneGroupOf(ids, 2)
    \/ /\ Len(ids) > 4
       /\ ~AllDistinct(ids)
       /\ ~StrictMajority(ids)
       /\ ~AllTwice(ids)

----------------------------------------------------------------------------
(* Properties of aggregate *)

\* the points all lie at one position, and there is at least one
Coincident ==
    /\ Len(objects) >= 1
    /\ \A i \in DOMAIN objects : \A j \in DOMAIN objects : SqDist(i, j) = 0

\* the ids of all the points
AllIds == {objects[i].id : i \in DOMAIN objects}

\* C12: N >= 1 coincident points give exactly one exemplar, of
\* density N with all N points in its contributor list and the sentinel for
\* isolation distance; every other point has a denser point at distance 0.
C12_OneExemplar ==
    (Coincident /\ pc = "done") =>
        /\ Len(aggregated_objects) = 1
        /\ LET e == aggregated_objects[1]
           IN /\ rho[e][1] = Len(objects)
              /\ Len(ann_id[e]) = Len(objects)
              /\ Range(ann_id[e]) = AllIds
              /\ dis[e] = Sentinel
              /\ \A i \in DOMAIN objects \ {e} : dis[i] = 0


\* the points of S and the points outside S are two groups: both non-empty,
\* every pair inside a group closer than d_local = d_min / 2, every pair
\* across the groups farther than d_min
TwoGroups(S) ==
    LET T == DOMAIN objects \ S
        d_min == min_distance_between_shops
    IN /\ S /= {}
       /\ T /= {}
       /\ \A G \in {S, T} : \A i \in G : \A j \in G :
             4 * SqDist(i, j) < d_min * d_min
       /\ \A i \in S : \A j \in T : SqDist(i, j) > d_min * d_min

\* C13: for two groups of points, tight inside and far from each other,
\* aggregate returns exactly two exemplars, one of each group.
C13_TwoExemplars ==
    pc = "done" =>
        \A S \in SUBSET (DOMAIN objects) :
            TwoGroups(S) =>
                /\ Len(aggregated_objects) = 2
                /\ Cardinality(Range(aggregated_objects) \cap S) = 1
                /\ Cardinality(Range(aggregated_objects) \ S) = 1

----------------------------------------------------------------------------
(* Properties of BuildingManager *)

\* the point lies 10,000 units or more outside the bounding box of the nodes
FarOutside(p) ==
    LET nodes == AllBuildingNodes(buildings)
        lats == {nd[1] : nd \in nodes}
        lngs == {nd[2] : nd \in nodes}
    IN /\ nodes /= {}
       /\ \/ p[1] <= MinFrom(MinStart, lats) - 10000
          \/ p[1] >= MaxFrom(MaxStart, lats) + 10000
          \/ p[2] <= MinFrom(MinStart, lngs) - 10000
          \/ p[2] >= MaxFrom(MaxStart, lngs) + 10000

\* C14: create_grid puts every node of every loaded building in a cell
\* inside the grid, and find_buildings called with a point coincident with a
\* node of a building returns a list that contains that building; neither
\* raises.
C14_NodeQueryFindsFootprint ==
    /\ pc /= "raised"
    /\ pc \in {"ready", "found"} =>
          \A b \in DOMAIN buildings : \A nd \in Range(buildings[b]) :
              LET c == NodeCell(<<min_lat, min_lng>>, nd)
              IN /\ c[1] \in 1..(nx - 1)
                 /\ c[2] \in 1..(ny - 1)
                 /\ b \in Range(building_grid[c])
    /\ pc = "found" =>
          \A b \in DOMAIN buildings :
              point \in Range(buildings[b]) => b \in Range(nearest)

\* C14 witness: the query at the far node <<120, 10049>> of the third
\* footprint, all four footprints loaded, returned it
C14_Witness ==
    /\ pc = "found"
    /\ Len(buildings) = 4
    /\ point = <<120, 10049>>
    /\ 3 \in Range(nearest)

\* C15: find_buildings called with a point 10,000 units or more outside the
\* bounding box of the loaded nodes, in any direction, returns the empty list
\* and does not raise.
C15_FarQueryEmpty ==
    /\ pc /= "raised"
    /\ (pc = "found" /\ FarOutside(point)) => nearest = <<>>

----------------------------------------------------------------------------
(* Reproducibility *)

\* C16: two runs of remove_duplicates over the same annotation file and the
\* same duplicates file, with the same seed, mark the same detections for
\* deletion.
C16_SameDeletions ==
    Len(run_deletions) = 2 => run_deletions[1] = run_deletions[2]

----------------------------------------------------------------------------
(* Files of the stages *)

\* the output of the image-level stage is there already, in the bucket or
\* at the local path the stage writes
ImageOutputTaken ==
    \/ ImageOutput \in DOMAIN bucket
    \/ OutputFilepath(local_ann_file_path, ImageOutput) \in DOMAIN files

\* C17: when the output annotation file of the stage exists already, the
\* stage raises before any write: the bucket and the local files are left as
\* they were, the existing file with its previous content.
C17_CollisionFailsClosed ==
    [][(pc = "remove" /\ ImageOutputTaken) =>
          (pc' = "raised" /\ bucket' = bucket /\ files' = files)]_vars

\* C18: when run_removal_location is called and the output of the image
\* stage is missing (no blob of that name; or a local_ann_file_path without
\* the suffix or naming no file), the stage raises at the load and goes no
\* further: no dataset is loaded, no table is written, no row processed, no
\* detection deleted, no file or blob written.
C18_MissingPrerequisiteRaises ==
    (pc /= "load" /\ PrerequisiteMissing) =>
        /\ pc = "raised"
        /\ annotations = <<>>
        /\ df = <<>>
        /\ processed_rows = <<>>
        /\ for_deletion = {}
        /\ LocationOutput \in DOMAIN bucket => bucket[LocationOutput] = Earlier
        /\ \A x \in DOMAIN files : files[x].origin /= "this run"
        /\ TempAnnotations \notin DOMAIN files

\* C18 witness: the stage raised for want of the blob of the image stage
C18_Witness ==
    /\ pc = "raised"
    /\ local_ann_file_path = ""
    /\ ImageOutput \notin DOMAIN bucket
    /\ InputBlob \in DOMAIN bucket

----------------------------------------------------------------------------
(* Properties of the verifier loop *)

\* the verifiers whose call returned more matches than the threshold
Voters == {k \in DOMAIN outcomes : outcomes[k] /= Raised /\ Threshold < outcomes[k]}

\* C19: a verifier that raises on a crop pair is caught and gives no vote for
\* it, the verifiers after it are still called on the same crop pair, and the
\* combinations after it are still processed: the run never ends raised, the
\* votes of a crop pair are exactly the verifiers that returned more matches
\* than the threshold, a crop pair is only left once every verifier was
\* called, and the run only ends once every combination was taken
C19_VerifierFailureIsolated ==
    /\ pc \in {"combination", "apis", "found"}
    /\ votes /= Unassigned => votes = Cardinality(Voters)
    /\ (pc /= "apis" /\ votes /= Unassigned) => Len(outcomes) = apis
    /\ pc = "apis" => Len(outcomes) <= apis
    /\ pc = "found" => cursor = Len(worklist)
    /\ \A r \in Range(duplicates_df) : \E k \in 1..cursor : worklist[k] = r

\* the first of three verifiers raised on the last crop pair, the two after
\* it voted for a match, the row was recorded and the run ended, two
\* combinations after an earlier one having been taken
C19_Witness ==
    /\ pc = "found"
    /\ apis = 3
    /\ Len(outcomes) = 3
    /\ outcomes[1] = Raised
    /\ outcomes[2] /= Raised
    /\ outcomes[3] /= Raised
    /\ votes = 2
    /\ cursor = 3
    /\ duplicates_df /= <<>>
    /\ duplicates_df[Len(duplicates_df)] = worklist[3]

----------------------------------------------------------------------------
(* Properties of the candidate pairs *)

\* C20: the neighbours of an image are other images only, so no candidate
\* pair is an image with itself: no combination the verifiers voted on takes
\* both detections from one image, and no recorded row pairs a detection
\* with a detection of its own image
C20_NoSelfPairs ==
    /\ \A k \in 1..cursor :
         ~CropEmpty(worklist[k]) => worklist[k][1] /= worklist[k][3]
    /\ \A r \in Range(duplicates_df) : r[1] /= r[3]

----------------------------------------------------------------------------
(* Properties of the working set *)

\* the images named by for_deletion_dict
ImagesDeletedFrom == {n[1] : n \in for_deletion}

\* the detections of image i in the loaded file that are not scheduled
Remaining(i) == {n \in AllNodes(coco) : n[1] = i} \ for_deletion

\* C21: once a reduction stage has applied its deletions, an image that lost
\* detections is in dataset.annotations if and only if one of its detections
\* remains, an image still there holds a detection, and dataset.annotations
\* and dataset.image_paths name the same images, before and after.
C21_EmptyImageRemoved ==
    /\ Range(image_paths) = DOMAIN annotations
    /\ pc = "done" =>
         \A i \in ImagesDeletedFrom :
            /\ (i \in DOMAIN annotations) <=> (Remaining(i) /= {})
            /\ i \in DOMAIN annotations => DetLen(annotations[i]) > 0

\* C21 witness: one image lost its only detection and is gone from both,
\* another lost a detection and is kept with what remains
C21_Witness ==
    /\ pc = "done"
    /\ \E i \in ImagesDeletedFrom :
          i \notin DOMAIN annotations /\ i \notin Range(image_paths)
    /\ \E i \in ImagesDeletedFrom :
          i \in DOMAIN annotations /\ i \in Range(image_paths)

----------------------------------------------------------------------------
(* Properties of the construction of BuildingManager *)

\* the rows that are polygons meeting the bounding box
ValidFootprints ==
    LET kept == SelectSeq(records, LAMBDA r : r.geometry = "polygon" /\ r.inside)
    IN [k \in DOMAIN kept |-> kept[k].nodes]

\* C22: with rows whose geometry text is unparsable, empty or no polygon in
\* the buildings file, the construction does not raise: after the load the
\* buildings are exactly the valid footprints, and the grid is then built
\* over them.
C22_BadRecordsDiscarded ==
    /\ pc /= "raised"
    /\ pc \in {"create", "ready"} => buildings = ValidFootprints

----------------------------------------------------------------------------
(* Properties of the location-level run *)

\* the detection is an entry of a row of the aggregation table
InCluster(n) == \E k \in DOMAIN df : n \in Entries(df[k])

\* the detection is of the configured class and has a location estimate
Located(n) ==
    /\ coco[n[1]][n[2] + 1] = ExportClass
    /\ est[n[1]][n[2] + 1] /= NoEstimate

\* C23: a detection whose location estimate is None, a detection of another
\* class, and a detection in no contributor list of the aggregation table is
\* never scheduled and never deleted: it is in the dataset, with its class,
\* at every point of the run.
C23_OnlyCandidatesDeleted ==
    \A n \in AllNodes(coco) :
        (~Located(n) \/ ~InCluster(n)) =>
            /\ n \notin for_deletion
            /\ Survives(n)
            /\ \E k \in DOMAIN annotations[n[1]].xyxy :
                  /\ annotations[n[1]].xyxy[k] = n[2]
                  /\ annotations[n[1]].class_id[k] = coco[n[1]][n[2] + 1]

\* C23 witness: the run is over and has deleted a detection, while a
\* detection without estimate and a located detection that no cluster lists
\* are still there
C23_Witness ==
    /\ pc = "returned"
    /\ for_deletion /= {}
    /\ \E n \in AllNodes(coco) :
          coco[n[1]][n[2] + 1] = ExportClass /\ ~Located(n) /\ Survives(n)
    /\ \E n \in AllNodes(coco) : Located(n) /\ ~InCluster(n) /\ Survives(n)

----------------------------------------------------------------------------
(* Properties of export and reload *)

\* the dataset in memory before it was serialized
BeforeExport == DeleteFrom(FromCoco(coco), DeletionDict(for_deletion))

\* C24: the dataset reloaded from the exported file names the same images as
\* the dataset had in memory, with the same number of detections in every
\* image and hence in total.
C24_RoundTripCounts ==
    pc = "reloaded" =>
        /\ DOMAIN annotations = DOMAIN BeforeExport
        /\ Range(image_paths) = DOMAIN BeforeExport
        /\ \A i \in DOMAIN BeforeExport :
              /\ DetLen(annotations[i]) = DetLen(BeforeExport[i])
              /\ Len(annotations[i].class_id) = DetLen(BeforeExport[i])
        /\ TotalDetections(annotations, DOMAIN annotations)
             = TotalDetections(BeforeExport, DOMAIN BeforeExport)

\* C24 witness: a dataset of two images, a detection of which was deleted,
\* was exported and reloaded with one detection in each image
C24_Witness ==
    /\ pc = "reloaded"
    /\ for_deletion /= {}
    /\ Cardinality(DOMAIN annotations) = 2
    /\ \A i \in DOMAIN annotations : DetLen(annotations[i]) = 1

\* aggregate is at work on the points read from the estimations table
Aggregating ==
    pc \in {"density", "isolation", "emit"} \/ (pc = "done" /\ processed_rows = <<>>)

\* the file is there and was written by this run
WrittenThisRun(name) == name \in DOMAIN files /\ files[name].origin = "this run"

----------------------------------------------------------------------------
(* Properties of the deletion by index *)

\* the indices of image i scheduled for deletion
ScheduledOf(i) == {n[2] : n \in {m \in for_deletion : m[1] = i}}

\* the boxes of image i left in the dataset, none when the image is gone
BoxesLeft(i) == IF i \in DOMAIN annotations THEN annotations[i].xyxy ELSE <<>>

\* C26: once the deletions of a stage are applied, the detections left in an
\* image are exactly those at the original indices that were not scheduled,
\* in their original order, and the class array has the length of the box
\* array, entry k of each being the box and the class of one detection.
C26_NoIndexShift ==
    pc = "done" =>
        \A i \in DOMAIN coco :
            /\ Range(BoxesLeft(i)) = (0..(Len(coco[i]) - 1)) \ ScheduledOf(i)
            /\ \A k \in 1..(Len(BoxesLeft(i)) - 1) : BoxesLeft(i)[k] < BoxesLeft(i)[k + 1]
            /\ i \in DOMAIN annotations =>
                  /\ Len(annotations[i].class_id) = Len(annotations[i].xyxy)
                  /\ \A k \in DOMAIN annotations[i].xyxy :
                        annotations[i].class_id[k] = coco[i][annotations[i].xyxy[k] + 1]

\* C26 witness: two indices of one image were scheduled and deleted, and a
\* detection of that image is left
C26_Witness ==
    /\ pc = "done"
    /\ \E i \in DOMAIN annotations :
          Cardinality(ScheduledOf(i)) = 2 /\ DetLen(annotations[i]) >= 1

----------------------------------------------------------------------------
(* Properties of the degenerate crops *)

\* one of the two crops of the combination has zero width or zero height
Degenerate(c) == <<c[1], c[2]>> \in zero_area \/ <<c[3], c[4]>> \in zero_area

\* C27: for a combination with a degenerate crop no verifier is called and
\* no row is recorded, and the loop goes on with the next combination: the
\* verifier loop is only ever entered for a combination without degenerate
\* crop, no row of the dataframe has one, and the run ends with every
\* combination taken.
C27_DegenerateSkipped ==
    /\ pc = "apis" => ~Degenerate(combination)
    /\ \A r \in Range(duplicates_df) : ~Degenerate(r)
    /\ (combination /= <<>> /\ Degenerate(combination)) =>
          /\ pc \in {"combination", "found"}
          /\ combination = worklist[cursor]
    /\ pc = "found" => cursor = Len(worklist)

\* C27 witness: two combinations with a degenerate crop were passed over
\* before any verifier was called, the third was voted on and recorded
C27_Witness ==
    /\ pc = "found"
    /\ Len(worklist) = 3
    /\ Degenerate(worklist[1])
    /\ Degenerate(worklist[2])
    /\ duplicates_df = <<worklist[3]>>
    /\ Len(outcomes) = apis
    /\ apis > 0

----------------------------------------------------------------------------
(* Properties of a run without reduction *)

\* no row of the aggregation table needs a reduction: every cluster has
\* length 1 or a single image, or the table is empty
NoReduction ==
    \A k \in DOMAIN df : Len(df[k].image_ids) = 1 \/ AllSame(df[k].image_ids)

\* C28: with an aggregation table none of whose clusters needs a reduction,
\* remove_duplicates does not raise, schedules and deletes nothing, and what
\* it has written to the bucket holds the detections of its input.
C28_NoReductionCompletes ==
    (WrittenThisRun(DetAnnEstimationsAggregated) /\ NoReduction) =>
        /\ pc /= "raised"
        /\ for_deletion = {}
        /\ annotations = FromCoco(coco)
        /\ pc = "done" =>
              /\ LocationOutput \in DOMAIN bucket
              /\ bucket[LocationOutput].data = FromCoco(coco)

----------------------------------------------------------------------------
(* Properties of process_row over every cluster *)

\* the positions of the cluster that hold the pair <<image id, annotation id>>
PositionsOf(pair) ==
    {p \in DOMAIN ClusterIds :
        ClusterIds[p] = pair[1] /\ df[1].annotation_ids[p] = pair[2]}

\* C29: whatever the cluster and the random choices, what process_row
\* returns names distinct positions of the cluster, each image id with the
\* annotation id of its own position, and fewer positions than the cluster
\* has; it names at least one whenever the cluster has two different image
\* ids; and after remove_duplicates a detection of the cluster is left.
C29_SurvivorGuarantee ==
    /\ Processed =>
          LET r == processed_rows[1]
          IN /\ Len(r.image_ids) = Len(r.annotation_ids)
             /\ \A n \in DOMAIN r.image_ids :
                   PositionsOf(<<r.image_ids[n], r.annotation_ids[n]>>) /= {}
             /\ Cardinality(Entries(r)) = Len(r.image_ids)
             /\ Len(r.image_ids) < Len(ClusterIds)
             /\ Cardinality(Range(ClusterIds)) >= 2 => (~r.none /\ Len(r.image_ids) >= 1)
    /\ pc = "done" => \E e \in Entries(df[1]) : Survives(e)

\* C29 witness: a cluster of five different images lost four entries and
\* kept one
C29_Witness ==
    /\ pc = "done"
    /\ Len(ClusterIds) = 5
    /\ AllDistinct(ClusterIds)
    /\ Cardinality(Deleted) = 4

----------------------------------------------------------------------------
(* Properties of the clusters of aggregate *)

\* the jittered densities are pairwise distinct
DistinctDensities ==
    \A i \in DOMAIN rho : \A j \in DOMAIN rho : i /= j => rho[i] /= rho[j]

\* the contributor list of point i as pairs <<image id, detection id>>
Contributors(i) == {<<ImageOf(i)[k], ann_id[i][k]>> : k \in DOMAIN ann_id[i]}

\* C30: with pairwise distinct densities, two points aggregate returns are
\* more than min_distance_between_shops apart and their contributor lists
\* share no entry, so that no detection is picked by process_row for two
\* clusters; the contributor list of a returned point starts with the point's
\* own image and id, and its image and id lists have the same length.
C30_ClustersDisjoint ==
    DistinctDensities =>
        /\ \A a \in Range(aggregated_objects) : \A b \in Range(aggregated_objects) :
              a /= b =>
                 /\ SqDist(a, b) > min_distance_between_shops * min_distance_between_shops
                 /\ Contributors(a) \cap Contributors(b) = {}
        /\ \A a \in Range(aggregated_objects) :
              /\ Len(ann_id[a]) >= 1
              /\ Len(ImageOf(a)) = Len(ann_id[a])
              /\ ann_id[a][1] = objects[a].id
              /\ ImageOf(a)[1] = objects[a].image
        /\ \A k \in DOMAIN processed_rows : \A l \in DOMAIN processed_rows :
              k /= l => Entries(processed_rows[k]) \cap Entries(processed_rows[l]) = {}

\* C30 witness: with distinct densities aggregate returned two points, one
\* with two contributors and one on its own, and the run went on to delete
\* a detection of the first
C30_Witness ==
    /\ pc = "returned"
    /\ DistinctDensities
    /\ Len(aggregated_objects) = 2
    /\ \E a \in Range(aggregated_objects) : Len(ann_id[a]) = 2
    /\ for_deletion /= {}

====
